---- MODULE Spec2Model ----
(***************************************************************************)
(* A model of the ACBLscore game-file decoder: ACBLGameFileParser in       *)
(* acbl-score-file-reader.py and the record classes of                     *)
(* acblscoresupportclasses.py.                                             *)
(*                                                                         *)
(* The file buffer is a byte string of a given length; it is kept sparse   *)
(* (the bytes that are not listed are 0).  Every decoder is an operator    *)
(* computed the way the code computes it; a call that raises returns the   *)
(* Python exception's class name in .st instead of "ok".                   *)
(***************************************************************************)
EXTENDS Integers, Sequences, FiniteSets, TLC

VARIABLES
    file_data,   \* self.file_data: [present, len, nz]
    events,      \* self.events
    sections,    \* self.sections
    header,      \* self.header
    pc,          \* where the running parse_master_table call is
    cur_loc,     \* the sequential cursor of parse_master_table
    i,           \* the loop index of parse_master_table
    err,         \* the exception that ended the call, "none" otherwise
    stage,       \* the part of parse_master_table that raised
    ncalls,      \* how many parse_master_table calls were started
    entered,     \* history: <<decoder, offset>> of every decoder run through a pointer
    declared,    \* history: <<decoder, declared length>> of every decoded length-prefixed record
    snap,        \* history: events, sections and header when the first call returned
    last         \* the last direct call of one decoder: [fn, arg, width, res]

vars == <<file_data, events, sections, header, pc, cur_loc, i, err, stage,
          ncalls, entered, declared, snap, last>>

------------------------------------------------------------------------------
(* The class constants and the literals of the header checks.              *)

event_max == 50
section_max == 100
max_mitchell == 40
max_howell == 80
MinFileLen == 2580
TableLength == 2578
SectionDetailsLength == 802
AC3 == <<65, 67, 51>>

------------------------------------------------------------------------------
(* The buffer.                                                             *)

Byte(b, k) == IF k \in DOMAIN b.nz THEN b.nz[k] ELSE 0

LE16(b, k) == Byte(b, k) + 256 * Byte(b, k + 1)

(* An unsigned 32-bit word; the buffers of this model keep every such     *)
(* word below 2^31.                                                        *)
LE32(b, k) == LE16(b, k) + 65536 * LE16(b, k + 2)

Signed8(v) == IF v >= 128 THEN v - 256 ELSE v

Signed16(v) == IF v >= 32768 THEN v - 65536 ELSE v

(* The signed 32-bit value, from its two halves.                           *)
SignedLE32(b, k) == Signed16(LE16(b, k + 2)) * 65536 + LE16(b, k)

(* struct.unpack_from(fmt, data, loc) of a format of n bytes raises        *)
(* struct.error unless loc + n <= len(data).                               *)
Fits(b, loc, n) == loc + n <= b.len

POk(v, nxt, n) == [st |-> "ok", val |-> v, loc |-> nxt, rd |-> n]

PErr(kind, loc, n) == [st |-> kind, val |-> 0, loc |-> loc, rd |-> n]

------------------------------------------------------------------------------
(* The primitive decoders: (value, next offset).                           *)

decode_uint8(b, loc) ==
    IF Fits(b, loc, 1) THEN POk(Byte(b, loc), loc + 1, 1)
    ELSE PErr("struct.error", loc, 0)

decode_int8(b, loc) ==
    IF Fits(b, loc, 1) THEN POk(Signed8(Byte(b, loc)), loc + 1, 1)
    ELSE PErr("struct.error", loc, 0)

decode_char(b, loc) ==
    IF Fits(b, loc, 1) THEN POk(<<Byte(b, loc)>>, loc + 1, 1)
    ELSE PErr("struct.error", loc, 0)

decode_boolean(b, loc) ==
    IF Fits(b, loc, 1) THEN POk(~(Byte(b, loc) = 0), loc + 1, 1)
    ELSE PErr("struct.error", loc, 0)

decode_int16(b, loc) ==
    IF Fits(b, loc, 2) THEN POk(Signed16(LE16(b, loc)), loc + 2, 2)
    ELSE PErr("struct.error", loc, 0)

decode_uint16(b, loc) ==
    IF Fits(b, loc, 2) THEN POk(LE16(b, loc), loc + 2, 2)
    ELSE PErr("struct.error", loc, 0)

decode_uint32(b, loc) ==
    IF Fits(b, loc, 4) THEN POk(LE32(b, loc), loc + 4, 4)
    ELSE PErr("struct.error", loc, 0)

decode_pointer(b, loc) ==
    IF Fits(b, loc, 4) THEN POk(LE32(b, loc), loc + 4, 4)
    ELSE PErr("struct.error", loc, 0)

(* val/10, val/100, val/10000: true division, kept as the exact quotient.  *)
decode_intfloat1(b, loc) ==
    IF Fits(b, loc, 2)
    THEN POk([num |-> Signed16(LE16(b, loc)), den |-> 10], loc + 2, 2)
    ELSE PErr("struct.error", loc, 0)

(* decode_intfloat2 with the quotient cut to an integer                    *)
decode_intfloat2_Truncating(b, loc) ==
    IF Fits(b, loc, 2)
    THEN POk([num |-> Signed16(LE16(b, loc)) \div 100, den |-> 1], loc + 2, 2)
    ELSE PErr("struct.error", loc, 0)

decode_intfloat2(b, loc) ==
    IF Fits(b, loc, 2)
    THEN POk([num |-> Signed16(LE16(b, loc)), den |-> 100], loc + 2, 2)
    ELSE PErr("struct.error", loc, 0)

decode_intfloat2long(b, loc) ==
    IF Fits(b, loc, 4)
    THEN POk([num |-> SignedLE32(b, loc), den |-> 100], loc + 4, 4)
    ELSE PErr("struct.error", loc, 0)

decode_intfloat4(b, loc) ==
    IF Fits(b, loc, 2)
    THEN POk([num |-> Signed16(LE16(b, loc)), den |-> 10000], loc + 2, 2)
    ELSE PErr("struct.error", loc, 0)

(* decode_string with the cursor moved behind the content                  *)
decode_string_AdvanceByContent(b, loc, max_len) ==
    IF ~Fits(b, loc, 1) THEN PErr("struct.error", loc, 0)
    ELSE LET length == Byte(b, loc) IN
         IF ~Fits(b, loc + 1, length) THEN PErr("struct.error", loc, 1)
         ELSE POk([k \in 1..length |-> Byte(b, loc + k)], loc + length + 1,
                  1 + length)

(* One length byte, then that many content bytes; the next offset is       *)
(* loc + max_len + 1 whatever was read.                                    *)
decode_string(b, loc, max_len) ==
    IF ~Fits(b, loc, 1) THEN PErr("struct.error", loc, 0)
    ELSE LET length == Byte(b, loc) IN
         IF ~Fits(b, loc + 1, length) THEN PErr("struct.error", loc, 1)
         ELSE POk([k \in 1..length |-> Byte(b, loc + k)], loc + max_len + 1,
                  1 + length)

IsLeap(y) == (y % 4 = 0) /\ ((y % 100 # 0) \/ (y % 400 = 0))

DaysInMonth(y, m) ==
    IF m = 2 THEN (IF IsLeap(y) THEN 29 ELSE 28)
    ELSE IF m \in {4, 6, 9, 11} THEN 30 ELSE 31

(* datetime(year, month, day, hour, minute, second) raises ValueError      *)
(* unless every field is in its range.                                     *)
DatetimeOk(y, m, d, hh, mi, s) ==
    /\ y \in 1..9999
    /\ m \in 1..12
    /\ d >= 1 /\ d <= DaysInMonth(y, m)
    /\ hh \in 0..23
    /\ mi \in 0..59
    /\ s \in 0..59

(* decode_date with the seconds field taken as it is stored                *)
decode_date_SecondsUnscaled(b, loc) ==
    IF ~Fits(b, loc, 4) THEN PErr("struct.error", loc, 0)
    ELSE LET date == LE16(b, loc + 2)
             year == (date \div 512) + 1980
             month == (date \div 32) % 16
             day == date % 32
             time == LE16(b, loc)
             hour == time \div 2048
             minute == (time \div 32) % 64
             sec == time % 32
         IN  IF DatetimeOk(year, month, day, hour, minute, sec)
             THEN POk([year |-> year, month |-> month, day |-> day,
                       hour |-> hour, minute |-> minute, second |-> sec],
                      loc + 4, 4)
             ELSE PErr("ValueError", loc, 4)

(* dt >> 16 and dt & 0xFFFF are the two 16-bit halves of the word.         *)
decode_date(b, loc) ==
    IF ~Fits(b, loc, 4) THEN PErr("struct.error", loc, 0)
    ELSE LET date == LE16(b, loc + 2)
             year == (date \div 512) + 1980
             month == (date \div 32) % 16
             day == date % 32
             time == LE16(b, loc)
             hour == time \div 2048
             minute == (time \div 32) % 64
             sec == (time * 2) % 64
         IN  IF DatetimeOk(year, month, day, hour, minute, sec)
             THEN POk([year |-> year, month |-> month, day |-> day,
                       hour |-> hour, minute |-> minute, second |-> sec],
                      loc + 4, 4)
             ELSE PErr("ValueError", loc, 4)

(* file_data[loc:loc+6] is a slice: it holds the bytes that exist, fewer   *)
(* than 6 near the end of the buffer.  The mantissa is kept as its         *)
(* big-endian base-256 digits (int.from_bytes reads them big-endian), the  *)
(* sign bit cleared in the first; the value is                             *)
(* (-1)^neg * (digits as a number) / 2^39 * 2^(exponent - 129).            *)
decode_real48(b, loc) ==
    LET n == IF loc >= b.len THEN 0
             ELSE IF loc + 6 <= b.len THEN 6 ELSE b.len - loc
    IN  IF n < 2 THEN PErr("IndexError", loc, n)
        ELSE LET exponent == Byte(b, loc)
                 sign_bit == Byte(b, loc + 1) \div 128
                 mantissa_bytes ==
                     [k \in 1..(n - 1) |->
                         IF k = 1 THEN Byte(b, loc + 1) % 128 ELSE Byte(b, loc + k)]
                 mantissa_is_zero == \A k \in 1..(n - 1) : mantissa_bytes[k] = 0
             IN  IF exponent = 0 /\ mantissa_is_zero
                 THEN POk([zero |-> TRUE, neg |-> FALSE, digits |-> << >>,
                           exponent |-> 0], loc + 6, n)
                 ELSE POk([zero |-> mantissa_is_zero, neg |-> sign_bit = 1,
                           digits |-> mantissa_bytes, exponent |-> exponent],
                          loc + 6, n)

------------------------------------------------------------------------------
(* Sequential decoding.  A decoder is written down as the list of its      *)
(* statements, in the order of the source; Tick executes them.  The        *)
(* decoder's local variables are kept in .v under the names the code gives *)
(* them (a name assigned twice keeps the last value, as in the code); .loc *)
(* is cur_loc; .rd counts the bytes read; .ent and .lens collect the       *)
(* history of the decoders called on the way.                              *)

(* (name, cur_loc) = self.decode_xxx (cur_loc)                             *)
F(kind, name) == [op |-> "fld", k |-> kind, n |-> 0, nm |-> name]

(* (name, cur_loc) = self.decode_string (cur_loc, max_len)                 *)
S(max_len, name) == [op |-> "fld", k |-> "str", n |-> max_len, nm |-> name]

(* (name, cur_loc) = self.parse_xxx (cur_loc): an embedded record          *)
R(fn, name) == [op |-> "rec", fn |-> fn, nm |-> name]

(* name = self.parse_xxx (ptr): the cursor stays where it is               *)
P(fn, ptr, name) == [op |-> "ptr", fn |-> fn, ptr |-> ptr, nm |-> name]

(* if name <rel> arg : raise exc                                           *)
C(name, rel, arg, exc) ==
    [op |-> "chk", nm |-> name, rel |-> rel, arg |-> arg, exc |-> exc]

(* a statement that raises exc whenever it is reached                      *)
X(exc) == [op |-> "raise", exc |-> exc]

(* name = value                                                            *)
A(name, value) == [op |-> "set", nm |-> name, val |-> value]

(* name = Kind (...), built from the local variables                       *)
M(name, kind) == [op |-> "new", nm |-> name, kind |-> kind]

(* list.append (name)                                                      *)
Push(list, name) == [op |-> "push", nm |-> list, from |-> name]

(* self.name = name.decode (), in Player.__init__                          *)
U(name) == [op |-> "decode", nm |-> name]

(* for i in range (count) : body -- count a local variable                 *)
L(count, body) == [op |-> "for", cnt |-> count, body |-> body]

(* for i in range (n) : body -- n an attribute of the parser               *)
LN(n, body) == [op |-> "times", n |-> n, body |-> body]

(* if (name) : yes  else : no -- name a pointer                            *)
IfNz(name, yes, no) == [op |-> "if_nz", nm |-> name, yes |-> yes, no |-> no]

(* if (name) : yes  else : no -- name a flag                               *)
IfT(name, yes, no) == [op |-> "if_true", nm |-> name, yes |-> yes, no |-> no]

(* def parse_xxx: zero is what a pointer of 0 returns ("none": the pointer *)
(* is not compared with 0), len tells a record that begins with its        *)
(* length, tuple a decoder that returns (result, cur_loc), ret the object  *)
(* it returns.                                                             *)
Def(fn, zero, len, tuple, steps, ret) ==
    [fn |-> fn, zero |-> zero, len |-> len, tuple |-> tuple, steps |-> steps,
     ret |-> ret]

Prim(b, loc, f) ==
    CASE f.k = "u8" -> decode_uint8(b, loc)
      [] f.k = "i8" -> decode_int8(b, loc)
      [] f.k = "char" -> decode_char(b, loc)
      [] f.k = "bool" -> decode_boolean(b, loc)
      [] f.k = "i16" -> decode_int16(b, loc)
      [] f.k = "u16" -> decode_uint16(b, loc)
      [] f.k = "u32" -> decode_uint32(b, loc)
      [] f.k = "ptr" -> decode_pointer(b, loc)
      [] f.k = "if1" -> decode_intfloat1(b, loc)
      [] f.k = "if2" -> decode_intfloat2(b, loc)
      [] f.k = "if2l" -> decode_intfloat2long(b, loc)
      [] f.k = "if4" -> decode_intfloat4(b, loc)
      [] f.k = "date" -> decode_date(b, loc)
      [] f.k = "r48" -> decode_real48(b, loc)
      [] f.k = "str" -> decode_string(b, loc, f.n)

Start(loc) ==
    [st |-> "ok", loc |-> loc, rd |-> 0, v |-> [x \in {} |-> 0],
     ent |-> {}, lens |-> {}]

V(a, name) == IF name \in DOMAIN a.v THEN a.v[name] ELSE 0

Bind(a, name, r) ==
    [a EXCEPT !.st = r.st, !.loc = r.loc, !.rd = @ + r.rd,
              !.v = IF r.st = "ok" THEN (name :> r.val) @@ @ ELSE @]

Field(b, a, f) == Bind(a, f.nm, Prim(b, a.loc, f))

Inline(a, name, r) ==
    [a EXCEPT !.st = r.st, !.loc = r.loc, !.rd = @ + r.rd,
              !.ent = @ \cup r.ent, !.lens = @ \cup r.lens,
              !.v = IF r.st = "ok" THEN (name :> r.val) @@ @ ELSE @]

(* a pointer call that leaves the cursor where the called decoder ended    *)
Sub_CursorFollows(a, name, r) ==
    [a EXCEPT !.st = r.st, !.loc = r.loc, !.rd = @ + r.rd,
              !.ent = @ \cup r.ent, !.lens = @ \cup r.lens,
              !.v = IF r.st = "ok" THEN (name :> r.val) @@ @ ELSE @]

Sub(a, name, r) ==
    [a EXCEPT !.st = r.st, !.rd = @ + r.rd,
              !.ent = @ \cup r.ent, !.lens = @ \cup r.lens,
              !.v = IF r.st = "ok" THEN (name :> r.val) @@ @ ELSE @]

Holds(value, rel, arg, b) ==
    CASE rel = "ne" -> value # arg
      [] rel = "outside" -> value < arg[1] \/ value > arg[2]
      [] rel = "ne_len" -> value # b.len

(* bytes.decode (): strict UTF-8                                           *)
Between(s, k, lo, hi) == k <= Len(s) /\ s[k] >= lo /\ s[k] <= hi

(* The length of the character that begins at s[k]: 0 when the bytes      *)
(* there are no character.                                                 *)
CharLen(s, k) ==
    IF s[k] < 128 THEN 1
    ELSE IF s[k] \in 194..223
         THEN IF Between(s, k + 1, 128, 191) THEN 2 ELSE 0
    ELSE IF s[k] \in 224..239
         THEN IF /\ Between(s, k + 1, IF s[k] = 224 THEN 160 ELSE 128,
                            IF s[k] = 237 THEN 159 ELSE 191)
                 /\ Between(s, k + 2, 128, 191)
              THEN 3 ELSE 0
    ELSE IF s[k] \in 240..244
         THEN IF /\ Between(s, k + 1, IF s[k] = 240 THEN 144 ELSE 128,
                            IF s[k] = 244 THEN 143 ELSE 191)
                 /\ Between(s, k + 2, 128, 191)
                 /\ Between(s, k + 3, 128, 191)
              THEN 4 ELSE 0
    ELSE 0

(* A byte in 128..191 continues a character and begins none.  The bytes    *)
(* are characters one after the other when every other byte begins one     *)
(* and every continuation byte lies in one.                                *)
Utf8Ok(s) ==
    \A k \in 1..Len(s) :
        IF s[k] \in 128..191
        THEN \E q \in 1..(k - 1) : s[q] \notin 128..191 /\ q + CharLen(s, q) > k
        ELSE CharLen(s, k) > 0

Raise(a, cond, kind) == IF cond THEN [a EXCEPT !.st = kind] ELSE a

Let(a, name, value) == [a EXCEPT !.v = (name :> value) @@ @]

Nothing == [kind |-> "nothing"]

(* return value (and the cursor), or the exception on its way up           *)
Ret(a, value) ==
    [st |-> a.st, val |-> IF a.st = "ok" THEN value ELSE Nothing,
     loc |-> a.loc, rd |-> a.rd, ent |-> a.ent, lens |-> a.lens]

(* The record of a length-prefixed record decoded to the end.              *)
Decoded(d, a) ==
    IF d.len /\ a.st = "ok"
    THEN [a EXCEPT !.lens = @ \cup {<<d.fn, V(a, "length")>>}]
    ELSE a

(* What the caller of a decoder called through a pointer gets: the whole   *)
(* pair when the decoder returns (result, cur_loc).  .ent records that the *)
(* decoder went to work at that offset.                                    *)
Returned(d, at, r) ==
    [r EXCEPT !.ent = IF d.zero # "none" /\ at = 0 THEN @
                      ELSE @ \cup {<<d.fn, at>>},
              !.val = IF r.st = "ok" /\ d.tuple
                      THEN [kind |-> "tuple", result |-> @, cur_loc |-> r.loc]
                      ELSE @]

------------------------------------------------------------------------------
(* The objects the decoders build.                                         *)

MPPigmentation(a) ==
    [mp_percent_to_first_pig |-> V(a, "first_per"),
     mp_percent_to_second_pig |-> V(a, "second_per"),
     mp_percent_to_third_pig |-> V(a, "third_per"),
     mp_of_first_pig_to_top |-> V(a, "first_top"),
     mp_of_second_pig_to_top |-> V(a, "second_top"),
     mp_of_third_pig_to_top |-> V(a, "third_top"),
     first_pigmentation_type |-> V(a, "first_pig"),
     second_pigmentation_type |-> V(a, "second_pig"),
     third_pigmentation_type |-> V(a, "third_pig")]

StratStructure(a) ==
    [kind |-> "StratStructure",
     mps_for_first |-> V(a, "mp_first"),
     ribbon_qualifying_color |-> V(a, "color"),
     ribbon_qualifying_depth |-> V(a, "depth"),
     mp_factor |-> V(a, "mp_factor"),
     rank_depth |-> V(a, "rank_depth"),
     number_tables_assumed |-> V(a, "assumed_tables"),
     rank_to_omit |-> V(a, "omit"),
     strat_min_mps |-> V(a, "min_mps"),
     strat_mp_cutoff |-> V(a, "mp_cutoff"),
     strat_letter |-> V(a, "strat_letter"),
     percent_of_open_game_rating |-> V(a, "percent_of_open"),
     event_m_factor |-> V(a, "event_m_factor"),
     session_m_factor |-> V(a, "ses_m_factor"),
     overall_award |-> V(a, "overall"),
     session_award |-> V(a, "session"),
     section_award |-> V(a, "section")]

SectionStrat(a) ==
    [kind |-> "SectionStrat",
     ns_rank_depth |-> V(a, "ns_rank_depth"),
     ew_rank_depth |-> V(a, "ew_rank_depth"),
     s_rank_depth |-> V(a, "s_rank_depth"),
     w_rank_depth |-> V(a, "w_rank_depth"),
     num_ns_pairs |-> V(a, "ns_num"),
     num_ew_pairs |-> V(a, "ew_num"),
     num_s_players |-> V(a, "s_num"),
     num_w_players |-> V(a, "w_num"),
     ns_qualification_depth |-> V(a, "ns_qual_depth"),
     ew_qualification_depth |-> V(a, "ew_qual_depth"),
     s_qualification_depth |-> V(a, "s_qual_depth"),
     w_qualification_depth |-> V(a, "w_qual_depth")]

Player(a) ==
    [kind |-> "Player",
     last_name |-> V(a, "last_name"), first_name |-> V(a, "first_name"),
     city |-> V(a, "city"), state |-> V(a, "state"),
     country |-> V(a, "country"), acbl_num |-> V(a, "acbl_num"),
     acbl_rank |-> V(a, "acbl_rank"), total_mps |-> V(a, "total_mps"),
     prev_session_mp |-> V(a, "prev_session_mp"),
     cur_session_mp |-> V(a, "cur_session_mp"),
     all_session |-> V(a, "all_session")]

BoardEntry(a) ==
    [round_num |-> V(a, "rnd"), table_num |-> V(a, "table"),
     ns_pair |-> V(a, "ns"), ns_score |-> V(a, "ns_score"),
     ns_mp_score |-> V(a, "ns_mp"), ew_pair |-> V(a, "ew"),
     ew_score |-> V(a, "ew_score"), ew_mp_score |-> V(a, "ew_mp")]

BoardResults(board_id, comp_units, num_results, entries) ==
    [kind |-> "BoardResults", board_id |-> board_id,
     num_competitive_units |-> comp_units, num_valid_results |-> num_results,
     entries |-> entries]

(* set_board_num keeping the board id of the result record                 *)
SetBoardAttributes_RecordWins(r, travellers, board_num, num_results) ==
    [kind |-> r.kind, board_id |-> r.board_id,
     num_competitive_units |-> r.num_competitive_units,
     num_valid_results |-> r.num_valid_results, entries |-> r.entries,
     travellers |-> travellers, board_num |-> r.board_id,
     num_results |-> num_results, warned |-> board_num # r.board_id]

(* set_travellers, set_board_num, set_num_results; .warned stands for the  *)
(* warning set_board_num prints when n differs from board_id.              *)
SetBoardAttributes(r, travellers, board_num, num_results) ==
    [kind |-> r.kind, board_id |-> r.board_id,
     num_competitive_units |-> r.num_competitive_units,
     num_valid_results |-> r.num_valid_results, entries |-> r.entries,
     travellers |-> travellers, board_num |-> board_num,
     num_results |-> num_results, warned |-> board_num # r.board_id]

BoardList(sect_num, num_boards, boards) ==
    [kind |-> "BoardList", section_num |-> sect_num, num_boards |-> num_boards,
     boards |-> boards]

(* PairDetails.__init__ assigns final_score to a local name               *)
(* (self_final_score), so the object has no such attribute.                *)
PairDetails(a) ==
    [kind |-> "PairDetails",
     pair_id |-> V(a, "pair_id"), adjustment |-> V(a, "adjustment"),
     unscaled_score |-> V(a, "unscaled"), session_score |-> V(a, "ses_score"),
     carry_over_score |-> V(a, "carry_over_score"),
     handicap |-> V(a, "handicap"),
     partnership_percentage |-> V(a, "partnership_per"),
     partnership_strat |-> V(a, "partnership_strat"),
     partnership_avg_mps |-> V(a, "avg_mps"),
     next_sect |-> V(a, "next_session_sect"),
     next_direction |-> V(a, "direction"),
     next_table |-> V(a, "next_session_table"),
     next_rotate |-> V(a, "next_session_change"),
     num_boards_played |-> V(a, "boards_played"),
     eligibility_status |-> V(a, "eligibility_status"),
     prev_session_mps |-> V(a, "prev_session_mp"),
     cur_sessoin_mps |-> V(a, "cur_session_mp"),
     all_session_mps |-> V(a, "all_session"),
     strat1_rank |-> V(a, "strat1_rank"), strat2_rank |-> V(a, "strat2_rank"),
     strat3_rank |-> V(a, "strat3_rank"),
     player1 |-> V(a, "player1"), player2 |-> V(a, "player2")]

PairList(direction, num_pairs, pairs) ==
    [kind |-> "PairList", direction |-> direction, num_pairs |-> num_pairs,
     pairs |-> pairs]

EmptyString == << >>

(* SectionDetails(): only self.details = {} is set                         *)
EmptySectionDetails == [kind |-> "SectionDetails", initialised |-> FALSE]

(* SectionDetails() followed by init_values(...); strat3 is stored as a    *)
(* one-element tuple (the assignment ends with a comma).                   *)
SectionDetails(a) ==
    [kind |-> "SectionDetails", initialised |-> TRUE,
     section_number |-> V(a, "sect_num"),
     ns_pairs |-> V(a, "ns_pairs"), ew_pairs |-> V(a, "ew_pairs"),
     south_ind |-> V(a, "s_inds"), west_ind |-> V(a, "w_inds"),
     howell_flag |-> V(a, "howell_flag"),
     num_boards_in_play |-> V(a, "boards_in_play"),
     highest_pair_numbe |-> V(a, "highest_pair"),
     num_boards_per_round |-> V(a, "boards_per_round"),
     top_on_board |-> V(a, "top_on_board"),
     num_rounds |-> V(a, "num_rounds"),
     movement_name |-> V(a, "movement_name"),
     phantom_pair_number |-> V(a, "phantom"),
     num_tables |-> V(a, "num_tables"),
     total_mp_score |-> V(a, "total_mps"),
     board_factor |-> V(a, "board_factor"),
     score_adjust_average |-> V(a, "score_adjust"),
     strat1 |-> V(a, "strat1"), strat2 |-> V(a, "strat2"),
     strat3 |-> << V(a, "strat3") >>,
     match_award_mps |-> V(a, "match_award"),
     victory_point_scale |-> V(a, "vp_scale"),
     section_modification_time |-> V(a, "mod_time"),
     bam_movement_flag |-> V(a, "bam_move"),
     acbl_score_version |-> V(a, "score_version"),
     manual_scoring_flag |-> V(a, "manual_score_flag"),
     pair_map |-> V(a, "pair_map"),
     club_number |-> V(a, "club_num"),
     num_elibible_strat1_pairs |-> V(a, "strat1_pairs"),
     num_elibible_strat2_pairs |-> V(a, "strat2_pairs"),
     num_elibible_strat3_pairs |-> V(a, "strat3_pairs"),
     memo |-> V(a, "memo"), team_match |-> V(a, "team_match")]

SectionSummary(a) ==
    [kind |-> "SectionSummary",
     section_number |-> V(a, "num"), section_name |-> V(a, "name"),
     details |-> V(a, "details"), boards |-> V(a, "boards"),
     total_mp_score |-> V(a, "total_mps"), scoring_status |-> V(a, "status"),
     num_rounds_posted |-> V(a, "num_rounds_entered"),
     total_number_rounds |-> V(a, "num_rounds_total"), flags |-> V(a, "flags")]

EventDetails(a) ==
    [kind |-> "EventDetails",
     num |-> V(a, "num"), event_name |-> V(a, "event_name"),
     session_name |-> V(a, "ses_name"), director |-> V(a, "director"),
     date |-> V(a, "date"), club_name |-> V(a, "club_name"),
     event_code |-> V(a, "event_code"), memo |-> V(a, "memo"),
     mp_percentage_p_factor |-> V(a, "mp_per"),
     percent_qualifying |-> V(a, "per_qual"),
     mp_rating_t_factor |-> V(a, "mp_rate"),
     rating |-> V(a, "rating"), session_number |-> V(a, "ses_num"),
     num_strats |-> V(a, "num_strats"),
     num_sessions |-> V(a, "num_ses_total"),
     club_number |-> V(a, "club_number"),
     modification_time |-> V(a, "mod_time"),
     strat1_structure |-> V(a, "strat1_struct"),
     strat2_structure |-> V(a, "strat2_struct"),
     strat3_structure |-> V(a, "strat3_struct"),
     percent_to_qualify |-> V(a, "perc_qualify"),
     additional_factor |-> V(a, "add_factor_multi"),
     game_fee |-> V(a, "game_fee"), table_fee |-> V(a, "table_fee"),
     charity_fee |-> V(a, "charity_fee"),
     non_acbl_flag |-> V(a, "nonacbl")]

EmptyDict == [kind |-> "dict"]

(* MasterTable.__init__ keeps five of its seven arguments: bridgemate is   *)
(* only named in an annotation and global_options is assigned to itself.   *)
MasterTable(score_version, memo, note, min_score_version, create_date, bridgemate, global_options) ==
    [kind |-> "MasterTable", version |-> score_version, memo |-> memo,
     note |-> note, min_version |-> min_score_version,
     creation_date |-> create_date]

(* The object (or local variable) a decoder returns.                       *)
Make(kind, a) ==
    CASE kind = "MPPigmentation" -> MPPigmentation(a)
      [] kind = "StratStructure" -> StratStructure(a)
      [] kind = "SectionStrat" -> SectionStrat(a)
      [] kind = "MPAward" -> [kind |-> "MPAward", v |-> a.v]
      [] kind = "Ranking" -> [kind |-> "Ranking", v |-> a.v]
      [] kind = "Player" -> Player(a)
      [] kind = "lines" -> V(a, "lines")
      [] kind = "quadruple" -> << V(a, "n"), V(a, "e"), V(a, "s"), V(a, "w") >>
      [] kind = "MitchellPair" ->
             [kind |-> "MitchellPair",
              reassigned_pairs |-> V(a, "reassigned_pairs"),
              initial_table |-> V(a, "initial_table")]
      [] kind = "BoardEntry" -> BoardEntry(a)
      [] kind = "BoardResults" ->
             BoardResults(V(a, "board_id"), V(a, "comp_units"),
                          V(a, "num_results"), V(a, "entries"))
      [] kind = "board attributes" ->
             SetBoardAttributes(V(a, "board_results"), V(a, "travellers"),
                                V(a, "board_num"), V(a, "num_results"))
      [] kind = "BoardList" ->
             BoardList(V(a, "sect_num"), V(a, "num_boards"), V(a, "boards"))
      [] kind = "PairDetails" -> PairDetails(a)
      [] kind = "PairList" ->
             PairList(V(a, "direction"), V(a, "num_pairs"), V(a, "pairs"))
      [] kind = "SectionDetails" -> SectionDetails(a)
      [] kind = "SectionSummary" -> SectionSummary(a)
      [] kind = "EventDetails" -> EventDetails(a)
      [] kind = "event" -> [details |-> V(a, "cur_event")]
      [] kind = "MasterTable" ->
             MasterTable(V(a, "score_version"), V(a, "memo"), V(a, "note"),
                         V(a, "min_score_version"), V(a, "create_date"),
                         V(a, "bridgemate"), V(a, "global_options"))
      [] kind = "none" -> Nothing

ZeroValue(zero) ==
    CASE zero = "string" -> EmptyString
      [] zero = "details" -> EmptySectionDetails
      [] zero = "none" -> Nothing

------------------------------------------------------------------------------
(* The decoders, statement by statement.                                   *)

MPPigmentationFields ==
    << F("if2", "first_per"), F("if2", "second_per"), F("if2", "third_per"),
       F("if2", "first_top"), F("if2", "second_top"), F("if2", "third_top"),
       F("u8", "first_pig"), F("u8", "second_pig"), F("u8", "third_pig") >>

parse_mp_pigmentation_structure ==
    Def("parse_mp_pigmentation_structure", "none", FALSE, TRUE,
        MPPigmentationFields, "MPPigmentation")

StratStructureFields ==
    << S(15, "ignore"), F("if2", "mp_first"), F("u8", "color"),
       F("u8", "depth"), F("if4", "mp_factor"), F("if2", "ignore"),
       F("u16", "rank_depth"), F("u16", "assumed_tables"), F("u16", "omit"),
       F("u16", "min_mps"), F("u16", "mp_cutoff"), F("char", "strat_letter"),
       F("u8", "percent_of_open"), F("r48", "event_m_factor"),
       F("r48", "ses_m_factor"), F("u16", "ignore") >>

(* parse_strat_structure with the section award read before the session's *)
parse_strat_structure_SectionFirst ==
    Def("parse_strat_structure", "none", FALSE, TRUE,
        StratStructureFields
        \o << R("parse_mp_pigmentation_structure", "overall"),
              R("parse_mp_pigmentation_structure", "section"),
              R("parse_mp_pigmentation_structure", "session") >>,
        "StratStructure")

parse_strat_structure ==
    Def("parse_strat_structure", "none", FALSE, TRUE,
        StratStructureFields
        \o << R("parse_mp_pigmentation_structure", "overall"),
              R("parse_mp_pigmentation_structure", "session"),
              R("parse_mp_pigmentation_structure", "section") >>,
        "StratStructure")

SectionStratFields ==
    << F("i16", "ns_rank_depth"), F("i16", "ew_rank_depth"),
       F("i16", "s_rank_depth"), F("i16", "w_rank_depth"),
       F("u16", "ns_num"), F("u16", "ew_num"), F("u16", "s_num"),
       F("u16", "w_num"), F("i16", "ns_qual_depth"), F("i16", "ew_qual_depth"),
       F("i16", "s_qual_depth"), F("i16", "w_qual_depth"), F("u8", "ignore") >>

parse_section_strat ==
    Def("parse_section_strat", "none", FALSE, TRUE, SectionStratFields,
        "SectionStrat")

MPStructFields ==
    << F("if2", "mp1"), F("u8", "mp1_color"), F("u8", "mp1_rank_type"),
       F("if2", "mp2"), F("u8", "mp2_color"), F("u8", "mp2_rank_type"),
       F("if2", "mp3"), F("u8", "mp3_color"), F("u8", "mp3_rank_type") >>

parse_mp_struct ==
    Def("parse_mp_struct", "none", FALSE, TRUE, MPStructFields, "MPAward")

RankingFields ==
    << F("u16", "sect_rank"), F("u16", "sect_tie"), F("u16", "overall_rank"),
       F("u16", "overall_tie"), F("u16", "qual"), F("u16", "rank"),
       F("u16", "ind_next_lowest_rank_sec"),
       F("u8", "sect_next_lowest_rank_sec"),
       F("u8", "dir_next_lowest_rank_sec"),
       F("u16", "ind_next_lowest_rank_overall"),
       F("u8", "sect_next_lowest_rank_overall"),
       F("u8", "dir_next_lowest_rank_overall") >>

parse_ranking ==
    Def("parse_ranking", "none", FALSE, TRUE, RankingFields, "Ranking")

PlayerFields1 ==
    << S(16, "last_name"), S(16, "first_name"), S(16, "city"), S(2, "state"),
       S(7, "acbl_num"), S(3, "db_key"), F("if2", "wins"),
       F("if2", "num_teams"), S(1, "ignore") >>

PlayerFields2 ==
    << S(4, "ignore"), F("u16", "total_mps"), F("char", "acbl_rank"),
       F("char", "ignore"), S(2, "country") >>

parse_player_struct ==
    Def("parse_player_struct", "none", FALSE, TRUE,
        PlayerFields1
        \o << R("parse_mp_struct", "prev_session_mp"),
              R("parse_mp_struct", "cur_session_mp"),
              R("parse_mp_struct", "all_session") >>
        \o PlayerFields2
        \o << U("last_name"), U("first_name"), U("city"), U("state"),
              U("country"), U("acbl_num"), U("acbl_rank") >>,
        "Player")

LinesHeader ==
    << F("i16", "length"), F("u16", "memo_id"), F("u16", "line_count") >>

(* parse_memo_structure without the comparison of the pointer with 0.      *)
parse_memo_structure_NoZeroCheck ==
    Def("parse_memo_structure", "none", TRUE, FALSE,
        LinesHeader
        \o << A("lines", EmptyString), L("line_count", << X("TypeError") >>) >>,
        "lines")

(* The loop body calls self.decode_string(63) with one argument, which     *)
(* raises TypeError before anything is read.                               *)
parse_memo_structure ==
    Def("parse_memo_structure", "string", TRUE, FALSE,
        LinesHeader
        \o << A("lines", EmptyString), L("line_count", << X("TypeError") >>) >>,
        "lines")

(* The same, with self.decode_string(75).                                  *)
parse_note_structure ==
    Def("parse_note_structure", "string", TRUE, FALSE,
        LinesHeader
        \o << A("lines", EmptyString), L("line_count", << X("TypeError") >>) >>,
        "lines")

QuadrupleFields == << F("u8", "n"), F("u8", "e"), F("u8", "s"), F("u8", "w") >>

parse_mitchell_pairs ==
    Def("parse_mitchell_pairs", "none", FALSE, TRUE,
        << A("reassigned_pairs", << >>), A("initial_table", << >>),
           LN(max_mitchell,
              QuadrupleFields
              \o << M("quadruple", "quadruple"),
                    Push("reassigned_pairs", "quadruple") >>),
           LN(max_mitchell,
              QuadrupleFields
              \o << M("quadruple", "quadruple"),
                    Push("initial_table", "quadruple") >>) >>,
        "MitchellPair")

(* parse_howell_pairs with HowellPair imported and without its raise: the  *)
(* two tables and the filler are read and the result is returned.          *)
parse_howell_pairs_NoRaise ==
    Def("parse_howell_pairs", "none", FALSE, TRUE,
        << LN(max_howell, << F("u8", "p") >>),
           LN(max_howell, << F("u8", "tn"), F("u8", "d") >>),
           S(79, "ignore") >>,
        "none")

(* HowellPair is not imported: the first statement raises NameError.       *)
parse_howell_pairs ==
    Def("parse_howell_pairs", "none", FALSE, TRUE, << X("NameError") >>, "none")

RoundRobinFields ==
    << F("bool", "rr_active_flag"), F("i8", "rr_starting"),
       S(2, "home_1_sect"), F("char", "direction_1"), F("i16", "table_1"),
       S(2, "home_2_sect"), F("char", "direction_2"), F("i16", "table_2"),
       S(2, "home_3_sect"), F("char", "direction_3"), F("i16", "table_3") >>

(* RoundRobin is not imported: constructing the result raises NameError.   *)
parse_round_robin_struct ==
    Def("parse_round_robin_struct", "none", FALSE, TRUE,
        RoundRobinFields \o << X("NameError") >>, "none")

TeamMatchIndexFields ==
    << F("i16", "length"), F("u16", "sect_num"), F("u16", "num_teams"),
       F("u16", "num_rounds"), F("ptr", "table_assign"), F("u8", "cur_rount"),
       F("u16", "num_posted"), S(1, "ignore") >>

(* What follows the first round-robin record is never reached.             *)
parse_team_match_index ==
    Def("parse_team_match_index", "string", TRUE, FALSE,
        TeamMatchIndexFields
        \o << R("parse_round_robin_struct", "rr_1"),
              R("parse_round_robin_struct", "rr_2") >>,
        "none")

BoardEntryFields ==
    << F("u8", "rnd"), F("u8", "table"), F("u16", "ns"), F("u16", "ns_score"),
       F("if2l", "ns_mp"), F("u16", "ew"), F("u16", "ew_score"),
       F("if2l", "ew_mp") >>

(* parse_board2_results reading one entry whatever the count is           *)
parse_board2_results_OneEntry ==
    Def("parse_board2_results", "none", TRUE, FALSE,
        << F("i16", "length"), F("u16", "board_id"), F("u8", "comp_units"),
           C("comp_units", "ne", 2, "ValueError"),
           F("u8", "num_results"), A("entries", << >>),
           LN(1,
              BoardEntryFields
              \o << M("entry", "BoardEntry"), Push("entries", "entry") >>) >>,
        "BoardResults")

parse_board2_results ==
    Def("parse_board2_results", "none", TRUE, FALSE,
        << F("i16", "length"), F("u16", "board_id"), F("u8", "comp_units"),
           C("comp_units", "ne", 2, "ValueError"),
           F("u8", "num_results"), A("entries", << >>),
           L("num_results",
             BoardEntryFields
             \o << M("entry", "BoardEntry"), Push("entries", "entry") >>) >>,
        "BoardResults")

BoardIndexEntryFields ==
    << F("u8", "board_num"), F("bool", "travellers"), F("u16", "num_results"),
       F("ptr", "res_pt") >>

parse_boards_index ==
    Def("parse_boards_index", "string", TRUE, FALSE,
        << F("i16", "length"), F("u16", "sect_num"), F("u16", "num_boards"),
           S(31, "ignore"), A("boards", << >>),
           L("num_boards",
             BoardIndexEntryFields
             \o << P("parse_board2_results", "res_pt", "board_results"),
                   M("board_results", "board attributes"),
                   Push("boards", "board_results") >>) >>,
        "BoardList")

PairDetailsFields ==
    << F("i16", "length"), F("u16", "pair_id"), F("if2l", "adjustment"),
       F("if2l", "unscaled"), F("if2l", "ses_score"),
       F("if2l", "carry_over_score"), F("if2l", "final_score"),
       F("if2l", "handicap"), F("if2", "partnership_per"),
       F("u8", "partnership_strat"), F("u8", "ignore"), F("u32", "avg_mps"),
       S(3, "ignore"), S(2, "next_session_sect"), F("char", "direction"),
       F("u16", "next_session_table"), F("u8", "next_session_change"),
       F("u16", "boards_played"), S(1, "ignore"),
       F("u8", "eligibility_status") >>

parse_pair_struct ==
    Def("parse_pair_struct", "none", TRUE, FALSE,
        PairDetailsFields
        \o << R("parse_mp_struct", "prev_session_mp"),
              R("parse_mp_struct", "cur_session_mp"),
              R("parse_mp_struct", "all_session"),
              S(5, "ignore"),
              R("parse_ranking", "strat1_rank"),
              R("parse_ranking", "strat2_rank"),
              R("parse_ranking", "strat3_rank"),
              S(9, "ignore"),
              R("parse_player_struct", "player1"),
              R("parse_player_struct", "player2") >>,
        "PairDetails")

(* parse_pair_index with the number of players compared behind the loop   *)
parse_pair_index_LateCheck ==
    Def("parse_pair_index", "none", TRUE, FALSE,
        << F("i16", "length"), F("u16", "direction"),
           C("direction", "outside", << 1, 2 >>, "ValueError"),
           F("u16", "num_players"),
           F("u16", "num_pairs"), F("ptr", "strat1_pt"), F("ptr", "strat2_pt"),
           F("ptr", "strat3_pt"), A("pairs", << >>),
           L("num_pairs",
             << S(3, "ignore"), F("ptr", "pair_struct_pt"),
                P("parse_pair_struct", "pair_struct_pt", "pair_struct"),
                Push("pairs", "pair_struct") >>),
           C("num_players", "ne", 2, "ValueError") >>,
        "PairList")

parse_pair_index ==
    Def("parse_pair_index", "none", TRUE, FALSE,
        << F("i16", "length"), F("u16", "direction"),
           C("direction", "outside", << 1, 2 >>, "ValueError"),
           F("u16", "num_players"),
           C("num_players", "ne", 2, "ValueError"),
           F("u16", "num_pairs"), F("ptr", "strat1_pt"), F("ptr", "strat2_pt"),
           F("ptr", "strat3_pt"), A("pairs", << >>),
           L("num_pairs",
             << S(3, "ignore"), F("ptr", "pair_struct_pt"),
                P("parse_pair_struct", "pair_struct_pt", "pair_struct"),
                Push("pairs", "pair_struct") >>) >>,
        "PairList")

(* The length read and not compared.                                       *)
SectionDetailsLengthCheck_NoCheck == << F("i16", "length") >>

(* The declared length is read and compared before anything else.          *)
SectionDetailsLengthCheck ==
    << F("i16", "length"),
       C("length", "ne", SectionDetailsLength, "ValueError") >>

(* The choice of the entry index made on the west-individual pointer.      *)
SectionEntries_TestsWest ==
    << A("ew_pairs", EmptyString), A("s_inds", EmptyString),
       A("w_inds", EmptyString),
       IfNz("w_ind_pt",
            << P("parse_player_struct", "ns_pairs_pt", "ns_pairs"),
               P("parse_player_struct", "ew_pairs_pt", "ew_pairs"),
               P("parse_player_struct", "s_ind_pt", "s_inds"),
               P("parse_player_struct", "w_ind_pt", "w_inds") >>,
            << IfNz("ew_pairs_pt",
                    << P("parse_pair_index", "ns_pairs_pt", "ns_pairs"),
                       P("parse_pair_index", "ew_pairs_pt", "ew_pairs") >>,
                    << X("AttributeError") >>) >>) >>

(* The three-way choice of the entry index, lines 365-377.                 *)
(* ACBLGameFileParser has no method parse_teams_index: looking it up       *)
(* raises AttributeError.                                                  *)
SectionEntries ==
    << A("ew_pairs", EmptyString), A("s_inds", EmptyString),
       A("w_inds", EmptyString),
       IfNz("s_ind_pt",
            << P("parse_player_struct", "ns_pairs_pt", "ns_pairs"),
               P("parse_player_struct", "ew_pairs_pt", "ew_pairs"),
               P("parse_player_struct", "s_ind_pt", "s_inds"),
               P("parse_player_struct", "w_ind_pt", "w_inds") >>,
            << IfNz("ew_pairs_pt",
                    << P("parse_pair_index", "ns_pairs_pt", "ns_pairs"),
                       P("parse_pair_index", "ew_pairs_pt", "ew_pairs") >>,
                    << X("AttributeError") >>) >>) >>

SectionDetailsFields2 ==
    << F("ptr", "mp_pt"), F("bool", "howell_flag"), F("u16", "boards_in_play"),
       F("u16", "highest_pair"), F("u8", "boards_per_round"),
       F("u16", "top_on_board"), F("u16", "bye_stand_location"),
       F("u16", "rover_movement"), F("u16", "board_1_table"),
       F("u16", "skip_round"), F("u16", "ignore"), F("u16", "names_entered"),
       F("bool", "carry_over_flag"), F("u8", "max_number_played"),
       F("if1", "board_factor"), F("if1", "score_adjust"),
       F("bool", "scores_factored_flag"), F("u8", "posting_method"),
       F("bool", "posted"), F("u16", "num_rounds"), S(11, "movement_name"),
       F("i16", "phantom"), F("u8", "color_ind"), F("u8", "dbadd_count"),
       F("bool", "barometer_flag"), F("u16", "num_tables"), S(3, "ignore"),
       F("u16", "total_mps"), S(6, "color_str"), S(3, "ignore"),
       F("u8", "change_post_method"), S(3, "ignore"),
       F("bool", "movement_flag"), F("u8", "max_board_play"),
       F("bool", "outside_adj"), F("u8", "posting_sequence"),
       F("u16", "rover_start"), S(1, "ignore") >>

SectionDetailsFields3 ==
    << S(1, "ignore"), F("if2", "match_award"), S(1, "ignore"),
       F("u8", "vp_scale"), S(2, "ignore"), F("date", "mod_time"),
       S(15, "ignore"), F("ptr", "memo_ptr") >>

SectionDetailsFields4 ==
    << F("bool", "bam_move"), S(1, "ignore"), F("if2", "score_version"),
       F("u8", "phantom2"), F("u8", "phantom3"), F("bool", "manual_score_flag") >>

SectionDetailsFields5 ==
    << S(23, "ignore"), S(6, "club_num"), F("u8", "ignore"),
       F("ptr", "match_index_ptr") >>

SectionDetailsFields6 ==
    << F("u16", "strat1_pairs"), F("u16", "strat2_pairs"),
       F("u16", "strat3_pairs") >>

parse_section_details ==
    Def("parse_section_details", "details", TRUE, FALSE,
        SectionDetailsLengthCheck
        \o << F("u16", "sect_num"), F("ptr", "ns_pairs_pt"),
              F("ptr", "ew_pairs_pt"), F("ptr", "s_ind_pt"),
              F("ptr", "w_ind_pt") >>
        \o SectionEntries
        \o SectionDetailsFields2
        \o << R("parse_section_strat", "strat1"),
              R("parse_section_strat", "strat2"),
              R("parse_section_strat", "strat3") >>
        \o SectionDetailsFields3
        \o << P("parse_memo_structure", "memo_ptr", "memo") >>
        \o SectionDetailsFields4
        \o << IfT("howell_flag",
                  << R("parse_howell_pairs", "pair_map") >>,
                  << R("parse_mitchell_pairs", "pair_map") >>) >>
        \o SectionDetailsFields5
        \o << P("parse_team_match_index", "match_index_ptr", "team_match") >>
        \o SectionDetailsFields6,
        "SectionDetails")

parse_section_summary ==
    Def("parse_section_summary", "none", FALSE, TRUE,
        << F("u8", "num"), S(2, "name"), F("ptr", "details_ptr"),
           P("parse_section_details", "details_ptr", "details"),
           F("ptr", "boards_pt"),
           P("parse_boards_index", "boards_pt", "boards"),
           F("u16", "total_mps"), F("u8", "status"), F("u8", "prev_sec_score"),
           F("u8", "next_sec_score"), F("u8", "prev_sec_rank"),
           F("u8", "next_sec_rank"), F("u8", "num_rounds_entered"),
           F("u8", "num_rounds_total"), F("u8", "flags") >>,
        "SectionSummary")

EventDetailsFields1 ==
    << F("i16", "length"), F("i16", "num"), S(25, "event_name"),
       S(13, "ses_name"), S(16, "director"), S(10, "sanction"), S(19, "date"),
       S(25, "club_name"), S(4, "event_code"), S(1, "ignore"),
       F("if1", "mp_per"), S(1, "ignore"), F("if2", "per_qual"),
       F("if1", "mp_rate"), S(1, "ignore"), F("bool", "age_strat"),
       F("u8", "rating"), F("u8", "eoe"), F("u16", "board_avg"),
       F("u8", "ses_num"), F("u8", "handicap"), F("u8", "start_sess_num"),
       F("bool", "carry_over"), F("bool", "data_ed"), F("bool", "neg_hand"),
       F("u8", "verified"), F("u8", "ignored"), F("u8", "max_imp_swing"),
       F("u8", "club_ses"), F("if2", "tie_break"), F("u16", "perfect"),
       F("u16", "top_on_board"), F("u16", "ignore"), F("u8", "num_strats"),
       F("u8", "num_ses_total"), F("bool", "consol_flag"),
       F("u8", "club_game"), S(6, "ignore"), F("u8", "ignore"), S(3, "ignore"),
       F("u16", "newcomers"), S(6, "club_number"), F("date", "mod_time"),
       F("u16", "ignore"), F("ptr", "memo_ptr") >>

EventDetailsFields2 ==
    << F("u8", "ignore"), F("u8", "num_brackets"), F("u8", "bracket_number"),
       F("u8", "ignore"), S(4, "qual_event_code"), F("u8", "hand_award_meth"),
       F("u8", "ignore"), F("bool", "imp_calc_flag"), F("bool", "edxov"),
       F("bool", "contin_pairs"), S(2, "ignore"), F("bool", "qualifying_event"),
       F("u8", "ignore") >>

EventDetailsFields3 ==
    << F("u32", "ignore"), F("u8", "perc_qualify"), F("u8", "ignore"),
       F("i8", "lm_strat1"), F("i8", "lm_strat2"), F("i8", "lm_strat3"),
       F("u8", "nap_level"), S(65, "ignore"), F("bool", "split_site_flag"),
       F("r48", "add_factor_multi"), S(8, "acbl_hands"), F("u16", "ignore"),
       F("bool", "per_instead_of_mp"), F("bool", "ignore"), F("bool", "seniors"),
       F("u8", "restrictions"), F("bool", "side_game"), F("u8", "mp_version"),
       S(21, "ignore"), F("bool", "print_unpaid"), S(8, "ignore"),
       F("r48", "game_fee"), F("r48", "table_fee"), F("r48", "charity_fee"),
       S(13, "ignore"), S(50, "charity_name"), F("bool", "strat_avg"),
       F("bool", "recap_per"), F("bool", "nonacbl") >>

parse_event_details ==
    Def("parse_event_details", "none", TRUE, FALSE,
        EventDetailsFields1
        \o << P("parse_memo_structure", "memo_ptr", "memo") >>
        \o EventDetailsFields2
        \o << R("parse_strat_structure", "strat1_struct"),
              R("parse_strat_structure", "strat2_struct"),
              R("parse_strat_structure", "strat3_struct") >>
        \o EventDetailsFields3,
        "EventDetails")

------------------------------------------------------------------------------
(* self.parse_xxx: the method of that name.                                *)

Decoder(fn) ==
    CASE fn = "parse_mp_pigmentation_structure" -> parse_mp_pigmentation_structure
      [] fn = "parse_strat_structure" -> parse_strat_structure
      [] fn = "parse_section_strat" -> parse_section_strat
      [] fn = "parse_mp_struct" -> parse_mp_struct
      [] fn = "parse_ranking" -> parse_ranking
      [] fn = "parse_player_struct" -> parse_player_struct
      [] fn = "parse_memo_structure" -> parse_memo_structure
      [] fn = "parse_note_structure" -> parse_note_structure
      [] fn = "parse_mitchell_pairs" -> parse_mitchell_pairs
      [] fn = "parse_howell_pairs" -> parse_howell_pairs
      [] fn = "parse_round_robin_struct" -> parse_round_robin_struct
      [] fn = "parse_team_match_index" -> parse_team_match_index
      [] fn = "parse_board2_results" -> parse_board2_results
      [] fn = "parse_boards_index" -> parse_boards_index
      [] fn = "parse_pair_struct" -> parse_pair_struct
      [] fn = "parse_pair_index" -> parse_pair_index
      [] fn = "parse_section_details" -> parse_section_details
      [] fn = "parse_section_summary" -> parse_section_summary
      [] fn = "parse_event_details" -> parse_event_details

(* One statement that calls no decoder and has no body.                    *)
Step(b, a, s) ==
    CASE s.op = "fld" -> Field(b, a, s)
      [] s.op = "chk" -> Raise(a, Holds(V(a, s.nm), s.rel, s.arg, b), s.exc)
      [] s.op = "raise" -> Raise(a, TRUE, s.exc)
      [] s.op = "decode" -> Raise(a, ~Utf8Ok(V(a, s.nm)), "UnicodeDecodeError")
      [] s.op = "set" -> Let(a, s.nm, s.val)
      [] s.op = "new" -> Let(a, s.nm, Make(s.kind, a))
      [] s.op = "push" -> Let(a, s.nm, Append(V(a, s.nm), V(a, s.from)))

Finish(d, a) == Ret(Decoded(d, a), Make(d.ret, a))

(* The call stack.  A frame is a list of statements and the place k in it: *)
(* the body of a decoder ("call": d the decoder, s the statement that      *)
(* called it, saved the names of the caller), the body of a loop with n    *)
(* passes to go ("loop"), or a branch of an if ("block").                  *)
Frame(kind, steps, n, d, s, saved) ==
    [kind |-> kind, steps |-> steps, k |-> 1, n |-> n, d |-> d, s |-> s,
     saved |-> saved]

Block(steps) == Frame("block", steps, 0, 0, 0, 0)

(* The interpreter between two statements: the names and the cursor of    *)
(* the function at work, the frames, and whether none is left.             *)
Config(a, stack) == [a |-> a, stack |-> stack, halted |-> stack = <<>>]

(* The caller after the decoder of frame f has returned r or raised.       *)
Back(f, r) ==
    IF f.s.op = "rec" THEN Inline(f.saved, f.s.nm, r)
    ELSE Sub(f.saved, f.s.nm, Returned(f.d, V(f.saved, f.s.ptr), r))

(* self.parse_xxx (at), from statement s: a pointer of 0 returns at once   *)
(* where the decoder compares it with 0.                                   *)
Enter(a, cont, cf, at) ==
    IF cf.d.zero # "none" /\ at = 0
    THEN Config(Back(cf, Ret(Start(at), ZeroValue(cf.d.zero))), cont)
    ELSE Config(Start(at), Append(cont, cf))

(* The end of frame f: a return, the next pass of a loop, or the end of a  *)
(* branch.  An exception ends every frame it passes.                       *)
Leave(a, rest, f) ==
    IF f.kind = "call" THEN Config(Back(f, Finish(f.d, a)), rest)
    ELSE IF f.kind = "loop" /\ a.st = "ok" /\ f.n > 1
         THEN Config(a, Append(rest, [f EXCEPT !.k = 1, !.n = @ - 1]))
    ELSE Config(a, rest)

(* Statement s, the frames cont below it.                                  *)
Execute(b, a, cont, s) ==
    CASE s.op = "rec" ->
             Enter(a, cont, Frame("call", Decoder(s.fn).steps, 0, Decoder(s.fn), s, a),
                   a.loc)
      [] s.op = "ptr" ->
             Enter(a, cont, Frame("call", Decoder(s.fn).steps, 0, Decoder(s.fn), s, a),
                   V(a, s.ptr))
      [] s.op = "for" ->
             Config(a, IF V(a, s.cnt) = 0 THEN cont
                       ELSE Append(cont, Frame("loop", s.body, V(a, s.cnt), 0, 0, 0)))
      [] s.op = "times" ->
             Config(a, Append(cont, Frame("loop", s.body, s.n, 0, 0, 0)))
      [] s.op = "if_nz" ->
             Config(a, Append(cont, Block(IF V(a, s.nm) # 0 THEN s.yes ELSE s.no)))
      [] s.op = "if_true" ->
             Config(a, Append(cont, Block(IF V(a, s.nm) THEN s.yes ELSE s.no)))
      [] OTHER -> Config(Step(b, a, s), cont)

(* The next thing the interpreter does, f the frame on top.                *)
Advance(b, a, rest, f) ==
    IF a.st # "ok" \/ f.k > Len(f.steps) THEN Leave(a, rest, f)
    ELSE Execute(b, a, Append(rest, [f EXCEPT !.k = @ + 1]), f.steps[f.k])

Tick(b, c) ==
    Advance(b, c.a, SubSeq(c.stack, 1, Len(c.stack) - 1), c.stack[Len(c.stack)])

(* 2^n times Tick, or fewer when no frame is left before.                 *)
RECURSIVE Exec(_, _, _)
Exec(b, c, n) ==
    CASE c.halted -> c
      [] n = 0 -> Tick(b, c)
      [] OTHER -> Exec(b, Exec(b, c, n - 1), n - 1)

(* Tick until no frame is left.                                            *)
RECURSIVE Go(_, _, _)
Go(b, c, n) == IF c.halted THEN c ELSE Go(b, Exec(b, c, n), n + 1)

(* A list of statements, one after the other, up to the first exception.   *)
RunAll(b, a, steps) == Go(b, Config(a, <<Block(steps)>>), 11).a

(* self.parse_xxx (loc)                                                    *)
CallD(d, b, loc) ==
    IF d.zero # "none" /\ loc = 0 THEN Ret(Start(loc), ZeroValue(d.zero))
    ELSE Finish(d, RunAll(b, Start(loc), d.steps))

Call(fn, b, loc) == CallD(Decoder(fn), b, loc)

(* self.parse_xxx (pointer), as its caller sees it                         *)
PtrCall(fn, b, at) == Returned(Decoder(fn), at, Call(fn, b, at))

------------------------------------------------------------------------------
(* parse_master_table, in the steps an exception can separate.             *)

NoFile == [present |-> FALSE, len |-> 0, nz |-> [x \in {} |-> 0]]

(* The header steps without the comparison of the file-length field.       *)
HeaderSteps_NoFileLength ==
    << F("i16", "table_length"),
       C("table_length", "ne", TableLength, "ValueError"),
       S(3, "ac3_id"),
       C("ac3_id", "ne", AC3, "TypeError"),
       F("u32", "file_length"),
       F("ptr", "free_bloc"), F("ptr", "instant_mp_table") >>

(* Lines 81-101: the three header checks and the two pointers that are     *)
(* read and not followed.  The message of the identifier error             *)
(* concatenates str and bytes, which raises TypeError.                     *)
HeaderSteps ==
    << F("i16", "table_length"),
       C("table_length", "ne", TableLength, "ValueError"),
       S(3, "ac3_id"),
       C("ac3_id", "ne", AC3, "TypeError"),
       F("u32", "file_length"),
       C("file_length", "ne_len", 0, "ValueError"),
       F("ptr", "free_bloc"), F("ptr", "instant_mp_table") >>

(* The size check with <= in the place of <.                               *)
HeaderCheck_SizeOffByOne(b) ==
    IF ~b.present THEN Raise(Start(0), TRUE, "TypeError")
    ELSE IF b.len <= MinFileLen THEN Raise(Start(0), TRUE, "ValueError")
    ELSE RunAll(b, Start(0), HeaderSteps)

(* Lines 77-101.  len(None) raises TypeError when no file was read.        *)
HeaderCheck(b) ==
    IF ~b.present THEN Raise(Start(0), TRUE, "TypeError")
    ELSE IF b.len < MinFileLen THEN Raise(Start(0), TRUE, "ValueError")
    ELSE RunAll(b, Start(0), HeaderSteps)

(* One pass of the loop of lines 103-109.                                  *)
EventSlotSteps ==
    Def("event", "none", FALSE, TRUE,
        << F("ptr", "event_loc"),
           IfNz("event_loc",
                << P("parse_event_details", "event_loc", "cur_event") >>,
                << A("cur_event", EmptyDict) >>) >>,
        "event")

EventSlot(b, loc) == CallD(EventSlotSteps, b, loc)

(* Lines 123-143.                                                          *)
TrailerSteps ==
    Def("trailer", "none", FALSE, TRUE,
        << F("ptr", "memo_pointer"),
           P("parse_memo_structure", "memo_pointer", "memo"),
           F("bool", "club_present"), F("if2", "score_version"),
           F("date", "create_date"), F("if2", "min_score_version"),
           F("ptr", "note_pointer"),
           P("parse_note_structure", "note_pointer", "note"),
           S(8, "ignored"), F("ptr", "imp_table_ptr"), S(7, "ignored"),
           F("u8", "global_options"), S(21, "ignored"), F("u8", "bridgemate") >>,
        "MasterTable")

Trailer(b, loc) == CallD(TrailerSteps, b, loc)

(* self.events[k]['type'] = cur, for the first event_max entries           *)
SetKey(d, key, value) == (key :> value) @@ d

(* the keys set from the bytes one behind their own                        *)
SetEventKeys_OneBehind(evs, b, loc, key) ==
    [k \in 1..Len(evs) |->
        IF k <= event_max THEN SetKey(evs[k], key, Byte(b, loc + k)) ELSE evs[k]]

SetEventKeys(evs, b, loc, key) ==
    [k \in 1..Len(evs) |->
        IF k <= event_max THEN SetKey(evs[k], key, Byte(b, loc + k - 1)) ELSE evs[k]]

------------------------------------------------------------------------------
(* The files the parser is run on.  A file is described by the fields that *)
(* are not zero; the records that pointers lead to lie behind the master    *)
(* table, at the offsets below.                                             *)

EvAt == MinFileLen
SdAt == EvAt + 720
NsAt == SdAt + 600
EwAt == NsAt + 40
PsAt == EwAt + 40
BiAt == PsAt + 410
BrAt == BiAt + 60
Br2At == BrAt + 40
MemoAt == Br2At + 40
FullLen == MemoAt + 10

Bytes16(v) == << v % 256, v \div 256 >>

Bytes32(v) == << v % 256, (v \div 256) % 256, (v \div 65536) % 256, v \div 16777216 >>

Put(at, bytes) == [k \in at..(at + Len(bytes) - 1) |-> bytes[k - at + 1]]

(* 2025-03-03 00:00:00 as a date word, and the all-zero word.              *)
DateWord(valid) == IF valid THEN Bytes16(0) \o Bytes16(45 * 512 + 3 * 32 + 3)
                   ELSE Bytes32(0)

EventPtrOff(k) == 18 + 4 * k
EventTypeOff(k) == EventPtrOff(event_max) + k
EventScoringOff(k) == EventTypeOff(event_max) + k
SectionOff(k) == EventScoringOff(event_max) + 22 * k
MemoPtrOff == SectionOff(section_max)
CreateDateOff == MemoPtrOff + 7
NotePtrOff == CreateDateOff + 6

Base ==
    [len |-> FullLen, tlen |-> TableLength, id |-> "pstr", flen |-> FullLen,
     date |-> TRUE, mt_memo |-> 0, mt_note |-> 0,
     memo_len |-> 0, memo_lines |-> 0,
     ev_slot |-> 0, ev_ptr |-> 0, ev_len |-> 0, ev_date |-> TRUE, ev_memo |-> 0,
     ev_type |-> 0,
     sec_slot |-> 0, sd_ptr |-> 0, sd_len |-> SectionDetailsLength,
     ns |-> NsAt, ew |-> EwAt, s_ind |-> 0, w_ind |-> 0, howell |-> 0,
     sd_date |-> TRUE, match_ptr |-> 0,
     pi_len |-> 0, ns_dir |-> 1, ew_dir |-> 2, players |-> 2, pairs |-> 1,
     ps_ptr |-> PsAt, ps_len |-> 0,
     bi_ptr |-> 0, bi_len |-> 0, boards |-> 1, board_num |-> 1, res_pt |-> BrAt,
     br_len |-> 0, br_id |-> 1, units |-> 2, results |-> 1, br2_len |-> 0,
     num_strats |-> 0, strat_mark |-> 0, ev_scoring |-> 0, br_round |-> 0]

HeaderBytes(sc) ==
    Put(0, Bytes16(sc.tlen))
    @@ (CASE sc.id = "pstr" -> Put(2, <<3>> \o AC3) @@ Put(6, Bytes32(sc.flen))
          [] sc.id = "AC2" -> Put(2, <<3, 65, 67, 50>>) @@ Put(6, Bytes32(sc.flen))
          [] sc.id = "short" -> Put(2, <<2, 65, 67, 51>>) @@ Put(6, Bytes32(sc.flen))
          [] sc.id = "raw" -> Put(2, AC3) @@ Put(5, Bytes32(sc.flen)))

MasterBytes(sc) ==
    HeaderBytes(sc)
    @@ Put(EventPtrOff(sc.ev_slot), Bytes32(sc.ev_ptr))
    @@ Put(EventTypeOff(sc.ev_slot), <<sc.ev_type>>)
    @@ Put(EventScoringOff(sc.ev_slot), <<sc.ev_scoring>>)
    @@ Put(SectionOff(sc.sec_slot) + 4, Bytes32(sc.sd_ptr))
    @@ Put(SectionOff(sc.sec_slot) + 8, Bytes32(sc.bi_ptr))
    @@ Put(MemoPtrOff, Bytes32(sc.mt_memo))
    @@ Put(CreateDateOff, DateWord(sc.date))
    @@ Put(NotePtrOff, Bytes32(sc.mt_note))

(* the bytes of the j-th strat structure of the event that are marked: the *)
(* length of its leading string, its colour and the last byte of each of   *)
(* its three pigmentations                                                 *)
StratBytes(sc, j) ==
    LET at == EvAt + 212 + 95 * (j - 1)
        m == IF sc.strat_mark = 0 THEN 0 ELSE 10 * j
    IN  Put(at, <<sc.strat_mark>>) @@ Put(at + 18, <<m>>)
        @@ Put(at + 64, <<m + 1>>) @@ Put(at + 79, <<m + 2>>)
        @@ Put(at + 94, <<m + 3>>)

EventBytes(sc) ==
    Put(EvAt, Bytes16(sc.ev_len))
    @@ Put(EvAt + 158, <<sc.num_strats>>)
    @@ Put(EvAt + 183, DateWord(sc.ev_date))
    @@ Put(EvAt + 189, Bytes32(sc.ev_memo))
    @@ StratBytes(sc, 1) @@ StratBytes(sc, 2) @@ StratBytes(sc, 3)

SectionBytes(sc) ==
    Put(SdAt, Bytes16(sc.sd_len))
    @@ Put(SdAt + 4, Bytes32(sc.ns) \o Bytes32(sc.ew) \o Bytes32(sc.s_ind)
                     \o Bytes32(sc.w_ind))
    @@ Put(SdAt + 24, <<sc.howell>>)
    @@ Put(SdAt + 189, DateWord(sc.sd_date))
    @@ Put(SdAt + 573, Bytes32(sc.match_ptr))

PairIndexBytes(sc, at, dir) ==
    Put(at, Bytes16(sc.pi_len) \o Bytes16(dir) \o Bytes16(sc.players)
            \o Bytes16(sc.pairs))
    @@ Put(at + 24, Bytes32(sc.ps_ptr))
    @@ Put(at + 32, Bytes32(sc.ps_ptr))

BoardBytes(sc) ==
    Put(BiAt, Bytes16(sc.bi_len) \o Bytes16(1) \o Bytes16(sc.boards))
    @@ Put(BiAt + 38, <<sc.board_num, 0, 0, 0>> \o Bytes32(sc.res_pt))
    @@ Put(BiAt + 46, <<sc.board_num + 1, 0, 0, 0>> \o Bytes32(Br2At))
    @@ Put(BrAt, Bytes16(sc.br_len) \o Bytes16(sc.br_id) \o <<sc.units, sc.results>>)
    @@ Put(BrAt + 6, <<sc.br_round>>) @@ Put(BrAt + 24, <<2 * sc.br_round>>)
    @@ Put(Br2At, Bytes16(sc.br2_len) \o Bytes16(sc.board_num + 1) \o <<2, 0>>)

MemoBytes(sc) ==
    Put(MemoAt, Bytes16(sc.memo_len) \o Bytes16(0) \o Bytes16(sc.memo_lines))

(* The bytes that are 0 are not kept, and none lies behind the end.        *)
Sparse(f, n) == [k \in {x \in DOMAIN f : f[x] # 0 /\ x < n} |-> f[k]]

MkBuffer(sc) ==
    [present |-> TRUE, len |-> sc.len,
     nz |-> Sparse(MasterBytes(sc) @@ EventBytes(sc) @@ SectionBytes(sc)
                   @@ PairIndexBytes(sc, NsAt, sc.ns_dir)
                   @@ PairIndexBytes(sc, EwAt, sc.ew_dir)
                   @@ BoardBytes(sc) @@ MemoBytes(sc), sc.len)]

HeaderFiles ==
    { [Base EXCEPT !.id = x] : x \in {"AC2", "short", "raw"} }
    \cup { [Base EXCEPT !.id = "raw", !.len = n, !.flen = n] : n \in {MinFileLen, FullLen} }
    \cup { [Base EXCEPT !.tlen = TableLength - d] : d \in {1, 2} }
    \cup { [Base EXCEPT !.flen = FullLen + d] : d \in {1, 256} }
    \cup { [Base EXCEPT !.len = n, !.flen = n, !.date = d] :
             n \in {MinFileLen - 1, MinFileLen, FullLen}, d \in BOOLEAN }

MemoFiles ==
    { [Base EXCEPT !.mt_memo = m, !.mt_note = n, !.memo_lines = c, !.memo_len = l] :
        m \in {0, MemoAt}, n \in {0, MemoAt}, c \in {0, 1}, l \in {0, 6} }

EventFiles ==
    { [Base EXCEPT !.ev_slot = k, !.ev_ptr = EvAt, !.ev_len = l, !.ev_date = d,
                   !.ev_type = 1] :
        k \in {0, event_max - 1}, l \in {0, 715}, d \in BOOLEAN }
    \cup { [Base EXCEPT !.ev_slot = 1, !.ev_ptr = EvAt, !.ev_memo = MemoAt,
                        !.memo_lines = c] : c \in {0, 1} }
    \cup { [Base EXCEPT !.ev_slot = 1, !.ev_ptr = q] :
             q \in {FullLen - 100, FullLen - 3, FullLen, FullLen + 1} }
    \cup { [Base EXCEPT !.ev_slot = k, !.ev_ptr = q, !.ev_type = 3,
                        !.ev_scoring = 2] :
             k \in {0, event_max - 1}, q \in {0, EvAt} }

SectionFiles ==
    { [Base EXCEPT !.sec_slot = k, !.sd_ptr = SdAt, !.sd_len = l] :
        k \in {0, section_max - 1},
        l \in {SectionDetailsLength, SectionDetailsLength - 1, 0} }
    \cup { [Base EXCEPT !.sd_ptr = SdAt, !.ns = n, !.ew = e, !.s_ind = x, !.w_ind = w] :
             n \in {0, NsAt}, e \in {0, EwAt}, x \in {0, PsAt}, w \in {0, PsAt} }
    \cup { [Base EXCEPT !.sd_ptr = SdAt, !.howell = h, !.sd_date = d, !.match_ptr = m] :
             h \in {0, 1, 255}, d \in BOOLEAN, m \in {0, MemoAt} }
    \cup { [Base EXCEPT !.sd_ptr = SdAt, !.ns_dir = x, !.ew_dir = y, !.players = q] :
             x \in {1, 2, 0}, y \in {2, 3}, q \in {2, 1} }
    \cup { [Base EXCEPT !.sd_ptr = SdAt, !.pairs = n, !.ps_ptr = q, !.pi_len = l,
                        !.ps_len = l + 1] :
             n \in {0, 1, 2}, q \in {0, PsAt}, l \in {0, 20} }
    \cup { [Base EXCEPT !.sd_ptr = SdAt, !.len = n, !.flen = n] :
             n \in {SdAt + 1, SdAt + 300, PsAt + 100} }

BoardFiles ==
    { [Base EXCEPT !.sec_slot = 1, !.bi_ptr = BiAt, !.boards = n, !.board_num = x,
                   !.res_pt = q] :
        n \in {0, 1, 2}, x \in {1, 7}, q \in {0, BrAt} }
    \cup { [Base EXCEPT !.bi_ptr = BiAt, !.units = u, !.results = r, !.br_len = l,
                        !.br2_len = 6, !.boards = 2] :
             u \in {2, 1}, r \in {0, 2}, l \in {6, 38} }
    \cup { [Base EXCEPT !.sec_slot = k, !.sd_ptr = SdAt, !.bi_ptr = BiAt] :
             k \in {0, section_max - 1} }

(* pointers that lead to the record they lie in, or to one before it       *)
PointerFiles ==
    { [Base EXCEPT !.sd_ptr = SdAt, !.ns = n, !.ps_ptr = q] :
        n \in {NsAt, SdAt, SectionOff(0)}, q \in {PsAt, NsAt, SdAt} }
    \cup { [Base EXCEPT !.sd_ptr = q] : q \in {SectionOff(0), SectionOff(0) + 4} }
    \cup { [Base EXCEPT !.bi_ptr = BiAt, !.res_pt = q] :
             q \in {BiAt, BiAt + 38, SectionOff(0)} }
    \cup { [Base EXCEPT !.ev_ptr = q] : q \in {EventPtrOff(0), MinFileLen - 717} }

Files ==
    HeaderFiles \cup MemoFiles \cup EventFiles \cup SectionFiles \cup BoardFiles
    \cup PointerFiles

Buffers == { MkBuffer(sc) : sc \in Files }

------------------------------------------------------------------------------
(* The program: a parser is constructed, the file is read, and             *)
(* parse_master_table is called (lines 927-930), at most MaxCalls times.   *)

MaxCalls == 2

NoCall == [fn |-> "none", arg |-> 0, width |-> 0, res |-> Nothing]

NoSnap == [events |-> << >>, sections |-> << >>, header |-> EmptyDict, taken |-> FALSE]

Init ==
    /\ file_data = NoFile
    /\ events = << >>
    /\ sections = << >>
    /\ header = EmptyDict
    /\ pc = "new"
    /\ cur_loc = 0
    /\ i = 0
    /\ err = "none"
    /\ stage = "none"
    /\ ncalls = 0
    /\ entered = {}
    /\ declared = {}
    /\ snap = NoSnap
    /\ last = NoCall

(* read_file: the whole file, or nothing when it cannot be opened          *)
ReadFile ==
    /\ pc = "new"
    /\ \E buf \in Buffers : file_data' = buf
    /\ pc' = "idle"
    /\ UNCHANGED <<events, sections, header, cur_loc, i, err, stage, ncalls,
                   entered, declared, snap, last>>

ReadFileFails ==
    /\ pc = "new"
    /\ pc' = "idle"
    /\ UNCHANGED <<file_data, events, sections, header, cur_loc, i, err, stage,
                   ncalls, entered, declared, snap, last>>

(* an exception leaves parse_master_table                                  *)
Raised(a, where) ==
    /\ pc' = "raised"
    /\ err' = a.st
    /\ stage' = where
    /\ entered' = entered \cup a.ent
    /\ declared' = declared \cup a.lens

Went(a) ==
    /\ cur_loc' = a.loc
    /\ entered' = entered \cup a.ent
    /\ declared' = declared \cup a.lens
    /\ UNCHANGED <<err, stage>>

HeaderChecked(a) ==
    IF a.st = "ok"
    THEN Went(a) /\ pc' = "events" /\ i' = 0
    ELSE Raised(a, "header") /\ UNCHANGED <<cur_loc, i>>

ParseHeader ==
    /\ pc \in {"idle", "done"}
    /\ ncalls < MaxCalls
    /\ ncalls' = ncalls + 1
    /\ HeaderChecked(HeaderCheck(file_data))
    /\ UNCHANGED <<file_data, events, sections, header, snap, last>>

(* the loop of lines 103-109 as a loop that reads event pointers until a   *)
(* read raises                                                             *)
EventRead_Uncounted(r) ==
    IF r.st = "ok"
    THEN /\ Went(r)
         /\ events' = Append(events, r.val)
         /\ i' = i
         /\ pc' = "events"
    ELSE Raised(r, "event") /\ UNCHANGED <<events, cur_loc, i>>

EventRead(r) ==
    IF r.st = "ok"
    THEN /\ Went(r)
         /\ events' = Append(events, r.val)
         /\ i' = i + 1
         /\ pc' = IF i + 1 = event_max THEN "types" ELSE "events"
    ELSE Raised(r, "event") /\ UNCHANGED <<events, cur_loc, i>>

EventStep ==
    /\ pc = "events"
    /\ EventRead(EventSlot(file_data, cur_loc))
    /\ UNCHANGED <<file_data, sections, header, ncalls, snap, last>>

(* lines 111-113; no byte of the master table lies behind the end          *)
TypesLoop ==
    /\ pc = "types"
    /\ events' = SetEventKeys(events, file_data, cur_loc, "type")
    /\ cur_loc' = cur_loc + event_max
    /\ pc' = "scoring"
    /\ UNCHANGED <<file_data, sections, header, i, err, stage, ncalls, entered,
                   declared, snap, last>>

(* lines 115-117 *)
ScoringLoop ==
    /\ pc = "scoring"
    /\ events' = SetEventKeys(events, file_data, cur_loc, "scoring")
    /\ cur_loc' = cur_loc + event_max
    /\ i' = 0
    /\ pc' = "sections"
    /\ UNCHANGED <<file_data, sections, header, err, stage, ncalls, entered,
                   declared, snap, last>>

SectionRead(r) ==
    IF r.st = "ok"
    THEN /\ Went(r)
         /\ sections' = Append(sections, r.val)
         /\ i' = i + 1
         /\ pc' = IF i + 1 = section_max THEN "trailer" ELSE "sections"
    ELSE Raised(r, "section") /\ UNCHANGED <<sections, cur_loc, i>>

(* one pass of the loop of lines 119-121 *)
SectionStep ==
    /\ pc = "sections"
    /\ SectionRead(Call("parse_section_summary", file_data, cur_loc))
    /\ UNCHANGED <<file_data, events, header, ncalls, snap, last>>

TrailerRead(r) ==
    IF r.st = "ok"
    THEN /\ Went(r)
         /\ header' = r.val
         /\ pc' = "done"
         /\ snap' = IF snap.taken THEN snap
                    ELSE [events |-> events, sections |-> sections,
                          header |-> r.val, taken |-> TRUE]
    ELSE Raised(r, "trailer") /\ UNCHANGED <<header, cur_loc, snap>>

ParseTrailer ==
    /\ pc = "trailer"
    /\ TrailerRead(Trailer(file_data, cur_loc))
    /\ UNCHANGED <<file_data, events, sections, i, ncalls, last>>

Next ==
    \/ ReadFile
    \/ ReadFileFails
    \/ ParseHeader
    \/ EventStep
    \/ TypesLoop
    \/ ScoringLoop
    \/ SectionStep
    \/ ParseTrailer

Spec == Init /\ [][Next]_vars

------------------------------------------------------------------------------
(* Two parsers, one after the other, on the same file: once the call of    *)
(* the first has ended a second parser is constructed and reads the file   *)
(* (lines 43-74); what the first ended with is kept in last.               *)

Outcome ==
    [pc |-> pc, err |-> err, stage |-> stage, events |-> events,
     sections |-> sections, header |-> header, file_data |-> file_data]

(* __init__ with the two lists kept in the class instead of the object     *)
NewParser_SharedLists ==
    /\ pc \in {"done", "raised"} /\ ncalls = 1 /\ last = NoCall
    /\ last' = [fn |-> "parser", arg |-> 0, width |-> 0, res |-> Outcome]
    /\ header' = EmptyDict
    /\ pc' = "idle" /\ cur_loc' = 0 /\ i' = 0
    /\ err' = "none" /\ stage' = "none" /\ ncalls' = 0
    /\ entered' = {} /\ declared' = {} /\ snap' = NoSnap
    /\ UNCHANGED <<file_data, events, sections>>

NewParser ==
    /\ pc \in {"done", "raised"} /\ ncalls = 1 /\ last = NoCall
    /\ last' = [fn |-> "parser", arg |-> 0, width |-> 0, res |-> Outcome]
    /\ events' = << >> /\ sections' = << >> /\ header' = EmptyDict
    /\ pc' = "idle" /\ cur_loc' = 0 /\ i' = 0
    /\ err' = "none" /\ stage' = "none" /\ ncalls' = 0
    /\ entered' = {} /\ declared' = {} /\ snap' = NoSnap
    /\ UNCHANGED file_data

NextTwo ==
    \/ Next
    \/ NewParser

SpecTwo == Init /\ [][NextTwo]_vars

------------------------------------------------------------------------------
(* The decoders called one at a time: a file is read, then one decoder     *)
(* that is reached through pointers, or one primitive decoder, is called   *)
(* at an offset, and the call and what it returned are kept in last.       *)

PointerDecoders ==
    {"parse_event_details", "parse_section_details", "parse_pair_index",
     "parse_pair_struct", "parse_boards_index", "parse_board2_results",
     "parse_memo_structure", "parse_note_structure", "parse_team_match_index"}

CallFiles ==
    { [Base EXCEPT !.sd_ptr = SdAt, !.sd_len = l, !.ev_len = l - 87,
                   !.memo_lines = c, !.bi_len = c, !.br_len = 6 * c] :
        l \in {SectionDetailsLength, SectionDetailsLength - 1}, c \in {0, 1} }
    \cup { [Base EXCEPT !.sd_ptr = SdAt, !.len = n, !.flen = n] :
             n \in {SdAt + 1, SdAt + 2, SdAt + 300} }
    \cup { [Base EXCEPT !.ns_dir = x, !.players = q, !.units = u] :
             x \in {0, 1, 2, 3}, q \in {2, 3}, u \in {2, 1} }
    \cup { [Base EXCEPT !.num_strats = n, !.strat_mark = m] :
             n \in {0, 1, 3, 7}, m \in {0, 1, 200} }
    \cup { [Base EXCEPT !.pairs = q, !.boards = n, !.results = r, !.br_round = 1] :
             q \in {0, 1, 2}, n \in {0, 1, 2}, r \in {0, 1, 2, 6} }

CallBuffers == { MkBuffer(sc) : sc \in CallFiles }

CallOffsets == {0, EvAt, SdAt, NsAt, PsAt, BiAt, BrAt, MemoAt}

PrimKinds ==
    {"u8", "i8", "char", "bool", "i16", "u16", "u32", "ptr", "if1", "if2",
     "if2l", "if4", "date", "r48"}

(* the bytes a field occupies: what the cursor advances by                 *)
Width(f) ==
    CASE f.k \in {"u8", "i8", "char", "bool"} -> 1
      [] f.k \in {"i16", "u16", "if1", "if2", "if4"} -> 2
      [] f.k \in {"u32", "ptr", "if2l", "date"} -> 4
      [] f.k = "r48" -> 6
      [] f.k = "str" -> f.n + 1

PrimFields == { F(kind, "value") : kind \in PrimKinds } \cup { S(3, "value") }

MaxBack == 6

(* the start of the file and the offsets near its end                      *)
PrimOffsets(b) == {0} \cup { b.len - k : k \in 0..MaxBack }

InitCall ==
    /\ file_data \in CallBuffers
    /\ events = << >>
    /\ sections = << >>
    /\ header = EmptyDict
    /\ pc = "call"
    /\ cur_loc = 0
    /\ i = 0
    /\ err = "none"
    /\ stage = "none"
    /\ ncalls = 0
    /\ entered = {}
    /\ declared = {}
    /\ snap = NoSnap
    /\ last = NoCall

CallDecoder ==
    /\ pc = "call"
    /\ \E fn \in PointerDecoders, at \in CallOffsets :
          last' = [fn |-> fn, arg |-> at, width |-> 0,
                   res |-> PtrCall(fn, file_data, at)]
    /\ pc' = "called"
    /\ UNCHANGED <<file_data, events, sections, header, cur_loc, i, err, stage,
                   ncalls, entered, declared, snap>>

CallPrimitive ==
    /\ pc = "call"
    /\ \E f \in PrimFields, at \in PrimOffsets(file_data) :
          last' = [fn |-> f.k, arg |-> at, width |-> Width(f),
                   res |-> Prim(file_data, at, f)]
    /\ pc' = "called"
    /\ UNCHANGED <<file_data, events, sections, header, cur_loc, i, err, stage,
                   ncalls, entered, declared, snap>>

NextCall ==
    \/ CallDecoder
    \/ CallPrimitive

SpecCall == InitCall /\ [][NextCall]_vars

------------------------------------------------------------------------------
(* The primitive decoders on short buffers that hold chosen values: a      *)
(* signed integer in two's complement, the six bytes of a real48, or a     *)
(* string behind its length byte.                                          *)

Enc16(v) == Bytes16(v % 65536)

Enc32(v) == Enc16(v) \o Enc16((v - (v % 65536)) \div 65536)

Raw(bytes, n) ==
    [present |-> TRUE, len |-> n, nz |-> Sparse(Put(0, bytes), n)]

ScaledSamples ==
    {0, 1, -1, 9, -9, 50, -50, 1234, -1234, 32767, -32768, 99999, -99999,
     123456, -123456, 2147483647, -2147483647}

ScaledBuffers == { Raw(Enc32(v), 4) : v \in ScaledSamples }

Real48Samples ==
    { <<e, m1, 0, 0, 0, m5>> : e \in {0, 1, 129}, m1 \in {0, 64, 128, 255},
                               m5 \in {0, 1} }

Real48Buffers == { Raw(x, 6) : x \in Real48Samples }

StringSamples ==
    { <<n, 65, 67, 51, 200, 0, 7, 8>> : n \in {0, 1, 3, 4, 5, 7, 8, 255} }

StringBuffers ==
    { Raw(x, 8) : x \in StringSamples } \cup { Raw(<<255, 65, 67, 51>>, 300) }

(* a date word from its bit fields: the time in the low half, the date in  *)
(* the high half                                                           *)
EncDate(x) ==
    Bytes16(x.hh * 2048 + x.mi * 32 + x.s2)
    \o Bytes16(x.y * 512 + x.m * 32 + x.d)

DateSamples ==
    [y : {0, 45, 127}, m : {0, 3, 12, 13}, d : {0, 3, 31},
     hh : {0, 23, 24}, mi : {0, 59, 60}, s2 : {0, 29, 30}]

DateBuffers == { Raw(EncDate(x), 4) : x \in DateSamples }

PrimBuffers ==
    ScaledBuffers \cup Real48Buffers \cup StringBuffers \cup DateBuffers

ScaledKinds == {"if1", "if2", "if2l", "if4"}

MaxOffset == 2

MaxWidth == 5

InitPrim ==
    /\ file_data \in PrimBuffers
    /\ events = << >>
    /\ sections = << >>
    /\ header = EmptyDict
    /\ pc = "call"
    /\ cur_loc = 0
    /\ i = 0
    /\ err = "none"
    /\ stage = "none"
    /\ ncalls = 0
    /\ entered = {}
    /\ declared = {}
    /\ snap = NoSnap
    /\ last = NoCall

Called(f, at) ==
    /\ last' = [fn |-> f.k, arg |-> at, width |-> Width(f),
                res |-> Prim(file_data, at, f)]
    /\ pc' = "called"
    /\ UNCHANGED <<file_data, events, sections, header, cur_loc, i, err, stage,
                   ncalls, entered, declared, snap>>

CallScaled ==
    /\ pc = "call"
    /\ \E kind \in ScaledKinds, at \in 0..MaxOffset : Called(F(kind, "value"), at)

CallReal48 ==
    /\ pc = "call"
    /\ \E at \in 0..MaxOffset : Called(F("r48", "value"), at)

CallString ==
    /\ pc = "call"
    /\ \E max_len \in 0..MaxWidth, at \in 0..MaxOffset :
          Called(S(max_len, "value"), at)

CallDate ==
    /\ pc = "call"
    /\ \E at \in 0..MaxOffset : Called(F("date", "value"), at)

NextPrim ==
    \/ CallScaled
    \/ CallReal48
    \/ CallString
    \/ CallDate

SpecPrim == InitPrim /\ [][NextPrim]_vars

------------------------------------------------------------------------------
(* Properties of the header checks.                                        *)

TableLengthField(b) == Signed16(LE16(b, 0))

(* the identifier as the code reads it: a length byte of 3 at offset 2,    *)
(* then A, C, 3 at offsets 3, 4, 5                                         *)
IdentifierIsAC3(b) ==
    Byte(b, 2) = 3 /\ << Byte(b, 3), Byte(b, 4), Byte(b, 5) >> = AC3

HeaderMismatch(b) ==
    /\ b.present
    /\ \/ TableLengthField(b) # TableLength
       \/ ~IdentifierIsAC3(b)
       \/ LE32(b, 6) # b.len

NothingDecoded == events = << >> /\ sections = << >> /\ header = EmptyDict

(* C1: a file whose master-table length is not 2578, whose identifier is   *)
(* not AC3 or whose file-length field differs from the length of the       *)
(* buffer is rejected by parse_master_table at the header, and then        *)
(* nothing has been decoded: events and sections are empty and the header  *)
(* is unset.                                                               *)
C1_HeaderMismatchRejected ==
    (ncalls >= 1 /\ HeaderMismatch(file_data))
        => (pc = "raised" /\ stage = "header" /\ NothingDecoded)

(* a file rejected only for its file-length field                          *)
C1_Witness ==
    /\ pc = "raised" /\ stage = "header" /\ err = "ValueError"
    /\ file_data.len >= MinFileLen
    /\ TableLengthField(file_data) = TableLength
    /\ IdentifierIsAC3(file_data)
    /\ LE32(file_data, 6) # file_data.len
    /\ NothingDecoded

(* the layout with the identifier at offsets 2, 3, 4 and the file length   *)
(* directly after it                                                       *)
RawLayout(b) ==
    /\ b.present
    /\ TableLengthField(b) = TableLength
    /\ << Byte(b, 2), Byte(b, 3), Byte(b, 4) >> = AC3
    /\ LE32(b, 5) = b.len

(* the layout the code reads                                               *)
PascalLayout(b) ==
    /\ b.present
    /\ TableLengthField(b) = TableLength
    /\ IdentifierIsAC3(b)
    /\ LE32(b, 6) = b.len

RejectedAtHeader == pc = "raised" /\ stage = "header"

(* C2: a buffer of at least 2580 bytes that holds the master-table length  *)
(* 2578 at offsets 0-1, the length byte 3 at offset 2, the identifier AC3  *)
(* at offsets 3, 4, 5 and its own length at offsets 6-9 passes the header  *)
(* validation.                                                             *)
C2_PascalLayoutPasses ==
    (ncalls >= 1 /\ PascalLayout(file_data) /\ file_data.len >= MinFileLen)
        => ~RejectedAtHeader

C2_Witness ==
    /\ ncalls = 1 /\ pc = "events" /\ i = 0 /\ cur_loc = EventPtrOff(0)
    /\ PascalLayout(file_data)

(* C2 as it is stated: the identifier at offsets 2, 3, 4, the file length  *)
(* directly after it, and such a buffer passes the header validation.      *)
C2_RawLayoutPasses ==
    (ncalls >= 1 /\ RawLayout(file_data)) => ~RejectedAtHeader

------------------------------------------------------------------------------
(* Properties of a failing or repeated parse.                              *)

(* C3: when parse_master_table fails after the header checks have passed,  *)
(* no partially populated events list, sections list or header is left.    *)
C3_NoPartialResults ==
    (pc = "raised" /\ stage # "header") => NothingDecoded

(* C4: after a second call of parse_master_table on the same buffer,       *)
(* events, sections and header equal what the first call left.             *)
C4_SecondCallIdempotent ==
    (ncalls = 2 /\ pc = "done")
        => (events = snap.events /\ sections = snap.sections
            /\ header = snap.header)

(* a valid header, and every other byte of the 2580 zero                   *)
MinimalBuffer(b) ==
    /\ PascalLayout(b)
    /\ b.len = MinFileLen
    /\ \A k \in DOMAIN b.nz : k < 10

(* C5: on the minimal buffer the decode succeeds, the result is a          *)
(* MasterTable without any decoded event or section, and no decoder was    *)
(* entered through a pointer.                                              *)
C5_MinimalBufferDecodes ==
    (ncalls >= 1 /\ MinimalBuffer(file_data))
        => /\ pc # "raised"
           /\ entered = {}
           /\ pc = "done" =>
                /\ header.kind = "MasterTable"
                /\ \A k \in 1..Len(events) : events[k].details = EmptyDict
                /\ \A k \in 1..Len(sections) :
                       sections[k].details = EmptySectionDetails

(* C6: no decoder that is reached through a pointer runs at offset 0.      *)
C6_NoDecoderAtOffsetZero ==
    \A e \in entered : e[1] \in PointerDecoders => e[2] # 0

------------------------------------------------------------------------------
(* Properties of single decoders.                                          *)

ZeroChecked ==
    {"parse_memo_structure", "parse_note_structure", "parse_boards_index",
     "parse_team_match_index", "parse_section_details"}

(* C7: called with pointer 0, the memo, note, boards-index and             *)
(* team-match-index decoders return the empty value and the                *)
(* section-details decoder an empty SectionDetails, without an exception   *)
(* and without reading a byte.                                             *)
C7_ZeroPointerIsEmpty ==
    (last.fn \in ZeroChecked /\ last.arg = 0)
        => /\ last.res.st = "ok"
           /\ last.res.rd = 0
           /\ last.res.ent = {}
           /\ last.res.val = IF last.fn = "parse_section_details"
                             THEN EmptySectionDetails ELSE EmptyString

C7_Witness ==
    /\ last.fn = "parse_memo_structure" /\ last.arg = 0
    /\ last.res.st = "ok" /\ last.res.val = EmptyString
    /\ Byte(file_data, 0) # 0

(* C8: a length-prefixed record is only decoded with the one declared      *)
(* length its kind expects (802 for section details), so no two records    *)
(* of one kind are decoded with different declared lengths.                *)
C8_DeclaredLengthsValidated ==
    /\ \A x \in declared :
          x[1] = "parse_section_details" => x[2] = SectionDetailsLength
    /\ \A x, y \in declared : x[1] = y[1] => x[2] = y[2]

LengthFieldAt(b, at) == Signed16(LE16(b, at))

(* C9: a non-empty SectionDetails returned by parse_section_details comes  *)
(* from a record whose length field is 802; with any other length the     *)
(* call raises having read no more than the length field and having        *)
(* followed no pointer.                                                    *)
C9_SectionDetailsLength ==
    last.fn = "parse_section_details"
        => /\ (last.res.st = "ok" /\ last.res.val # EmptySectionDetails)
                  => LengthFieldAt(file_data, last.arg) = SectionDetailsLength
           /\ (last.arg # 0
               /\ LengthFieldAt(file_data, last.arg) # SectionDetailsLength)
                  => /\ last.res.st # "ok"
                     /\ last.res.rd <= 2
                     /\ last.res.ent = {<<"parse_section_details", last.arg>>}

C9_Witness ==
    /\ last.fn = "parse_section_details" /\ last.arg = SdAt
    /\ last.res.st = "ok"
    /\ last.res.val # EmptySectionDetails
    /\ last.res.rd > 2

(* C10: a primitive decode whose offset plus field width exceeds the       *)
(* length of the buffer fails.                                             *)
C10_PrimitiveBoundsChecked ==
    (last.width > 0 /\ last.arg + last.width > file_data.len)
        => last.res.st # "ok"

------------------------------------------------------------------------------
(* Properties of the section layouts.                                      *)

(* a section summary whose details were decoded from a record              *)
DecodedSections ==
    { k \in 1..Len(sections) : sections[k].details.initialised }

(* C11: a section of individual play (south-individual pointer not zero),  *)
(* of team play (south-individual and east-west pointers zero) or with a   *)
(* team-match index is never returned as a decoded record: every decoded   *)
(* SectionDetails is one of pair play without a team-match index.          *)
C11_UnsupportedLayoutRejected ==
    \A k \in DecodedSections :
        /\ sections[k].details.south_ind = EmptyString
        /\ sections[k].details.ew_pairs # EmptyString
        /\ sections[k].details.team_match = EmptyString

(* the offset of the Section Details record that section slot k points to  *)
DetailsPointer(b, k) == LE32(b, SectionOff(k) + 4)

(* the howell flag byte of the record at offset at: it follows the length, *)
(* the section number and five pointers                                    *)
HowellFlagByte(b, at) == Byte(b, at + 24)

HowellSectionIn(b) ==
    /\ b.present
    /\ \E k \in 0..(section_max - 1) :
          DetailsPointer(b, k) # 0 /\ HowellFlagByte(b, DetailsPointer(b, k)) # 0

(* C12: a Section Details record whose howell flag byte is not zero makes  *)
(* parse_section_details raise: no decoded SectionDetails has its howell   *)
(* flag set, and parse_master_table does not complete on a file that holds *)
(* such a record.                                                          *)
C12_HowellTerminal ==
    /\ \A k \in DecodedSections : ~sections[k].details.howell_flag
    /\ (ncalls >= 1 /\ HowellSectionIn(file_data))
           => (pc # "done" /\ header = EmptyDict)

(* a record that is valid up to its movement table and has the flag set    *)
C12_Witness ==
    /\ pc = "raised" /\ stage = "section" /\ err = "NameError"
    /\ DetailsPointer(file_data, 0) = SdAt
    /\ HowellFlagByte(file_data, SdAt) # 0
    /\ LengthFieldAt(file_data, SdAt) = SectionDetailsLength
    /\ (<<"parse_pair_index", EwAt>> \in entered)

------------------------------------------------------------------------------
(* Properties of the identifier check.                                     *)

AC2 == <<65, 67, 50>>

(* a header that is valid but for its identifier, which reads AC2          *)
FlippedToAC2(b) ==
    /\ b.present /\ b.len >= MinFileLen
    /\ TableLengthField(b) = TableLength
    /\ Byte(b, 2) = 3 /\ << Byte(b, 3), Byte(b, 4), Byte(b, 5) >> = AC2
    /\ LE32(b, 6) = b.len

(* C13: with the identifier AC2 in an otherwise valid buffer               *)
(* parse_master_table raises at the header the error of the other header   *)
(* mismatches, ValueError.                                                 *)
C13_AC2RaisesFormatError ==
    (ncalls >= 1 /\ FlippedToAC2(file_data))
        => (pc = "raised" /\ stage = "header" /\ err = "ValueError")

------------------------------------------------------------------------------
(* Properties of the primitive decoders.                                   *)

(* the primitive decoder kind was called where its whole field lies in the *)
(* buffer                                                                  *)
CalledWithin(kind) ==
    last.fn = kind /\ last.arg + last.width <= file_data.len

Midnight1980 ==
    [year |-> 1980, month |-> 1, day |-> 1, hour |-> 0, minute |-> 0,
     second |-> 0]

(* C14: the date word 0x00000000 decodes to 1980-01-01T00:00:00 and the    *)
(* cursor advances by 4.                                                   *)
C14_ZeroDateWord ==
    (CalledWithin("date") /\ LE32(file_data, last.arg) = 0)
        => /\ last.res.st = "ok"
           /\ last.res.val = Midnight1980
           /\ last.res.loc = last.arg + 4

(* the number the bytes of the buffer were encoded from                    *)
Encoded32 == CHOOSE v \in ScaledSamples : file_data = Raw(Enc32(v), 4)

Encoded16(at) ==
    CHOOSE v \in -32768..32767 :
        Enc16(v) = << Byte(file_data, at), Byte(file_data, at + 1) >>

Scale(kind) ==
    CASE kind = "if1" -> 10
      [] kind = "if2" -> 100
      [] kind = "if2l" -> 100
      [] kind = "if4" -> 10000

(* C15: a scaled-integer decoder returns the encoded signed integer        *)
(* divided by its scale as the exact quotient, nothing cut off and the     *)
(* sign kept, and advances the cursor by the width of the integer: 2, or 4 *)
(* for decode_intfloat2long.                                               *)
C15_ScaledIntegers ==
    (file_data \in ScaledBuffers /\ last.fn \in ScaledKinds
     /\ last.arg + last.width <= file_data.len)
        => /\ last.res.st = "ok"
           /\ last.res.val.den = Scale(last.fn)
           /\ last.res.val.num = IF last.fn = "if2l" THEN Encoded32
                                 ELSE Encoded16(last.arg)
           /\ last.res.loc = last.arg + (IF last.fn = "if2l" THEN 4 ELSE 2)

(* -50 at the scale 10: -5.0                                               *)
C15_Witness ==
    /\ file_data = Raw(Enc32(-50), 4)
    /\ last.fn = "if1" /\ last.arg = 0
    /\ last.res.st = "ok"
    /\ last.res.val = [num |-> -50, den |-> 10]
    /\ last.res.loc = 2

(* C16: decode_real48 returns 0.0 and advances the cursor by 6 whenever    *)
(* the exponent byte is 0, whatever the mantissa and the sign bit are.     *)
C16_ZeroExponentIsZero ==
    (CalledWithin("r48") /\ Byte(file_data, last.arg) = 0)
        => /\ last.res.st = "ok"
           /\ last.res.val.zero
           /\ ~last.res.val.neg
           /\ last.res.loc = last.arg + 6

(* the content of the string field at offset at, as its length byte says   *)
Content(b, at) == [k \in 1..Byte(b, at) |-> Byte(b, at + k)]

(* C20: decode_string (loc, max_len) returns the bytes loc+1 .. loc+length *)
(* for the length the byte at loc gives, and the next offset               *)
(* loc + max_len + 1 whether the length is below, at or above max_len.     *)
C20_StringAdvancesByFieldWidth ==
    (last.fn = "str" /\ last.arg + 1 + Byte(file_data, last.arg) <= file_data.len)
        => /\ last.res.st = "ok"
           /\ last.res.val = Content(file_data, last.arg)
           /\ last.res.loc = last.arg + last.width

(* a content longer than the field: 5 bytes in a field of 3                *)
C20_Witness ==
    /\ last.fn = "str" /\ last.arg = 0 /\ last.width = 4
    /\ Byte(file_data, 0) = 5
    /\ last.res.st = "ok"
    /\ Len(last.res.val) = 5
    /\ last.res.loc = 4

------------------------------------------------------------------------------
(* Properties of the records.                                              *)

(* the PairDetails of the decoded sections of pair play                    *)
DecodedPairs ==
    UNION { { sections[k].details.ns_pairs.pairs[j] :
                j \in 1..Len(sections[k].details.ns_pairs.pairs) } :
            k \in { x \in DecodedSections :
                      sections[x].details.ns_pairs.kind = "PairList" } }

(* C17: the records hold what was read for them: the MasterTable the       *)
(* import (bridgemate) flag and the global option bits, and every          *)
(* PairDetails the final score.                                            *)
C17_RecordsHoldWhatWasRead ==
    /\ header.kind = "MasterTable"
           => {"bridgemate_import", "global_options"} \subseteq DOMAIN header
    /\ \A pair \in DecodedPairs : "final_score" \in DOMAIN pair

------------------------------------------------------------------------------
(* Properties of two parsers on one file.                                  *)

(* the call of the second parser has ended                                 *)
SecondEnded == last.fn = "parser" /\ ncalls = 1 /\ pc \in {"done", "raised"}

------------------------------------------------------------------------------
(* Properties of the entry shape of a section.                             *)

(* the four entry pointers of the Section Details record at offset at:     *)
(* they follow the length and the section number                           *)
NsPointer(b, at) == LE32(b, at + 4)

EwPointer(b, at) == LE32(b, at + 8)

SouthPointer(b, at) == LE32(b, at + 12)

WestPointer(b, at) == LE32(b, at + 16)

Shape(b, at) ==
    IF SouthPointer(b, at) # 0 THEN "players"
    ELSE IF EwPointer(b, at) # 0 THEN "pairs" ELSE "teams"

(* the decoders of entries that were called through a pointer              *)
EnteredBy(fn) == { x[2] : x \in { y \in entered : y[1] = fn } }

(* the record at SdAt was read up to its entry pointers                    *)
EntriesChosen ==
    /\ <<"parse_section_details", SdAt>> \in entered
    /\ LengthFieldAt(file_data, SdAt) = SectionDetailsLength
    /\ file_data.len >= SdAt + 20
    /\ pc = "raised" \/ sections # << >>

------------------------------------------------------------------------------
(* Properties of the date word.                                            *)

(* the bit fields the date word of the buffer was put together from        *)
EncodedDate == CHOOSE x \in DateSamples : file_data = Raw(EncDate(x), 4)

(* C21: where decode_date succeeds the result holds the bit fields of the  *)
(* word: the year field plus 1980, the month, day, hour and minute fields, *)
(* and twice the seconds field, which is even; the cursor advances by 4.   *)
C21_DateFields ==
    (last.fn = "date" /\ last.res.st = "ok")
        => /\ last.res.loc = last.arg + 4
           /\ last.res.val.second % 2 = 0
           /\ (file_data \in DateBuffers /\ last.arg = 0)
                  => last.res.val =
                         [year |-> EncodedDate.y + 1980, month |-> EncodedDate.m,
                          day |-> EncodedDate.d, hour |-> EncodedDate.hh,
                          minute |-> EncodedDate.mi,
                          second |-> 2 * EncodedDate.s2]

(* 2107-12-31 23:59:58                                                     *)
C21_Witness ==
    /\ file_data = Raw(EncDate([y |-> 127, m |-> 12, d |-> 31, hh |-> 23,
                                mi |-> 59, s2 |-> 29]), 4)
    /\ last.fn = "date" /\ last.arg = 0 /\ last.res.st = "ok"
    /\ last.res.val.year = 2107 /\ last.res.val.second = 58
    /\ last.res.loc = 4

------------------------------------------------------------------------------
(* Properties of the board index.                                          *)

(* the slot of the master table that sections[k] was decoded from: a      *)
(* repeated call appends the slots once more                               *)
Slot(k) == (k - 1) % section_max

(* the offset of the board index that section slot k points to             *)
BoardsPointer(b, k) == LE32(b, SectionOff(k) + 8)

(* entry j of the board index at offset at: the entries follow the length, *)
(* the section number, the number of boards and a filler of 32 bytes       *)
IndexEntry(at, j) == at + 38 + 8 * (j - 1)

IndexBoardNum(b, at, j) == Byte(b, IndexEntry(at, j))

(* the board id of the result record that entry j points to                *)
RecordBoardId(b, at, j) == LE16(b, LE32(b, IndexEntry(at, j) + 4) + 2)

(* the section summaries whose board index was decoded                     *)
WithBoards == { k \in 1..Len(sections) : sections[k].boards # EmptyString }

(* two boards are listed, and the first carries another number in the      *)
(* index than in its result record                                         *)
FirstBoardDiffers(b, at) ==
    /\ at # 0
    /\ LE16(b, at + 4) = 2
    /\ IndexBoardNum(b, at, 1) # RecordBoardId(b, at, 1)

(* C22: a board whose number in the index differs from the board id of its *)
(* result record is decoded all the same: the warning is given, board_num  *)
(* is the number of the index, board_id stays the id of the record, and    *)
(* the boards behind it are decoded.                                       *)
C22_BoardNumberFromIndex ==
    \A k \in WithBoards :
        /\ FirstBoardDiffers(file_data, BoardsPointer(file_data, Slot(k)))
               => Len(sections[k].boards.boards) = 2
        /\ \A j \in 1..Len(sections[k].boards.boards) :
              /\ sections[k].boards.boards[j].board_num
                     = IndexBoardNum(file_data, BoardsPointer(file_data, Slot(k)), j)
              /\ sections[k].boards.boards[j].board_id
                     = RecordBoardId(file_data, BoardsPointer(file_data, Slot(k)), j)
              /\ sections[k].boards.boards[j].warned
                     = (sections[k].boards.boards[j].board_num
                            # sections[k].boards.boards[j].board_id)

(* the first of two boards differs, the second does not                    *)
C22_Witness ==
    /\ pc = "done"
    /\ 2 \in WithBoards
    /\ FirstBoardDiffers(file_data, BiAt)
    /\ Len(sections[2].boards.boards) = 2
    /\ sections[2].boards.boards[1].warned
    /\ sections[2].boards.boards[1].board_num = 7
    /\ sections[2].boards.boards[1].board_id = 1
    /\ ~sections[2].boards.boards[2].warned

------------------------------------------------------------------------------
(* Properties of the enumerated fields.                                    *)

(* the call raised ValueError having read n bytes and followed no pointer  *)
RaisedAfter(n) ==
    /\ last.res.st = "ValueError"
    /\ last.res.rd = n
    /\ last.res.ent = {<<last.fn, last.arg>>}

(* C23: parse_pair_index raises when the direction is not 1 or 2, having   *)
(* read the length and the direction, and when the number of players is    *)
(* not 2, having read that field too, and follows no pair pointer before;  *)
(* parse_board2_results raises when the competitive units are not 2,       *)
(* having read the 5 bytes up to that field and no result entry.           *)
C23_EnumeratedFieldsFatal ==
    /\ (last.fn = "parse_pair_index" /\ last.arg + 6 <= file_data.len)
           => /\ LE16(file_data, last.arg + 2) \notin {1, 2} => RaisedAfter(4)
              /\ (LE16(file_data, last.arg + 2) \in {1, 2}
                  /\ LE16(file_data, last.arg + 4) # 2) => RaisedAfter(6)
    /\ (last.fn = "parse_board2_results" /\ last.arg + 5 <= file_data.len
        /\ Byte(file_data, last.arg + 4) # 2) => RaisedAfter(5)

(* three players, and a pair listed behind them                            *)
C23_Witness ==
    /\ last.fn = "parse_pair_index" /\ last.arg = NsAt
    /\ LE16(file_data, NsAt + 2) = 1
    /\ LE16(file_data, NsAt + 4) = 3
    /\ LE16(file_data, NsAt + 6) = 1
    /\ LE32(file_data, NsAt + 24) = PsAt
    /\ RaisedAfter(6)

------------------------------------------------------------------------------
(* Properties of the strat structures of an event.                         *)

(* where the j-th strat structure of the event at ev begins                *)
StratAt(ev, j) == ev + 212 + 95 * (j - 1)

(* the last field of the pigmentation read at an offset                    *)
LastOf(award, at) ==
    award.third_pigmentation_type = Byte(file_data, at + 15 - 1)

(* the strat structure s is the one read at an offset: 95 bytes, the three *)
(* pigmentations behind the 50 bytes of its own fields                     *)
StratReadAt(s, at) ==
    LET r == Call("parse_strat_structure", file_data, at)
    IN  /\ r.st = "ok" /\ r.loc = at + 95
        /\ s = r.val
        /\ s.ribbon_qualifying_color = Byte(file_data, at + 18)
        /\ LastOf(s.overall_award, at + 50)
        /\ LastOf(s.session_award, at + 50 + 15)
        /\ LastOf(s.section_award, at + 50 + 2 * 15)

(* the strat structures an event record holds, in the order of its fields  *)
Strats(ev) == << ev.strat1_structure, ev.strat2_structure, ev.strat3_structure >>

(* C24: a decoded event holds three strat structures, read back to back    *)
(* from offset 212 of the event, 95 bytes each whatever they hold, and     *)
(* each holds the overall, session and section pigmentations in that       *)
(* order, whatever the event's num_strats field is.                        *)
C24_ThreeStratStructures ==
    (last.fn = "parse_event_details" /\ last.res.st = "ok")
        => \A j \in 1..3 :
               StratReadAt(Strats(last.res.val)[j], StratAt(last.arg, j))

(* an event that declares one strat, with an over-long leading string in   *)
(* each strat structure                                                    *)
C24_Witness ==
    /\ last.fn = "parse_event_details" /\ last.arg = EvAt
    /\ last.res.st = "ok"
    /\ Byte(file_data, EvAt + 158) = 1
    /\ Byte(file_data, StratAt(EvAt, 1)) = 200
    /\ last.res.val.strat1_structure.session_award.third_pigmentation_type = 12
    /\ last.res.val.strat3_structure.section_award.third_pigmentation_type = 33

------------------------------------------------------------------------------
(* Properties of the cursor of parse_master_table.                         *)

(* C25: the cursor of parse_master_table is where the fields read one      *)
(* after the other end, whatever the pointers read on the way lead to:     *)
(* before the i-th event pointer and the i-th section summary it is at     *)
(* their places in the table, each section summary advancing it by 22,     *)
(* and a call that returns returns 2580, the table length plus the two     *)
(* bytes of the length field.                                              *)
C25_CursorIndependentOfPointers ==
    /\ pc = "events" => cur_loc = EventPtrOff(i)
    /\ pc = "sections" => cur_loc = SectionOff(0) + 22 * i
    /\ pc = "trailer" => cur_loc = SectionOff(0) + 22 * section_max
    /\ pc = "done" => cur_loc = TableLength + 2 /\ cur_loc = 2580

(* a call that returned having followed the pointers of a section to its   *)
(* details, its pair indexes and its boards                                *)
C25_Witness ==
    /\ pc = "done" /\ cur_loc = 2580
    /\ <<"parse_section_details", SdAt>> \in entered
    /\ <<"parse_pair_index", NsAt>> \in entered
    /\ <<"parse_boards_index", BiAt>> \in entered
    /\ <<"parse_board2_results", BrAt>> \in entered

------------------------------------------------------------------------------
(* Termination.                                                            *)

DecoderNames ==
    {"parse_mp_pigmentation_structure", "parse_strat_structure",
     "parse_section_strat", "parse_mp_struct", "parse_ranking",
     "parse_player_struct", "parse_memo_structure", "parse_note_structure",
     "parse_mitchell_pairs", "parse_howell_pairs", "parse_round_robin_struct",
     "parse_team_match_index", "parse_board2_results", "parse_boards_index",
     "parse_pair_struct", "parse_pair_index", "parse_section_details",
     "parse_section_summary", "parse_event_details"}

(* the decoders a list of statements calls, in a loop or a branch or not   *)
RECURSIVE Callees(_)
Callees(steps) ==
    UNION { LET s == steps[k]
            IN  CASE s.op \in {"rec", "ptr"} -> {s.fn}
                  [] s.op \in {"for", "times"} -> Callees(s.body)
                  [] s.op \in {"if_nz", "if_true"} -> Callees(s.yes) \cup Callees(s.no)
                  [] OTHER -> {}
            : k \in 1..Len(steps) }

(* the counts the loops of a list of statements run to are names of        *)
(* fields read earlier, or constants                                       *)
RECURSIVE LoopsCounted(_)
LoopsCounted(steps) ==
    \A k \in 1..Len(steps) :
        LET s == steps[k]
        IN  CASE s.op = "for" ->
                     /\ \E q \in 1..(k - 1) : steps[q].op = "fld" /\ steps[q].nm = s.cnt
                     /\ LoopsCounted(s.body)
              [] s.op = "times" -> LoopsCounted(s.body)
              [] s.op \in {"if_nz", "if_true"} -> LoopsCounted(s.yes) /\ LoopsCounted(s.no)
              [] OTHER -> TRUE

(* the decoders on the longest chain of calls that begins with fn, or      *)
(* more than fuel when there are more                                      *)
RECURSIVE Height(_, _)
Height(fn, fuel) ==
    IF fuel = 0 THEN 1
    ELSE LET below == { Height(c, fuel - 1) : c \in Callees(Decoder(fn).steps) }
         IN  1 + (IF below = {} THEN 0
                  ELSE CHOOSE h \in below : \A x \in below : x <= h)

(* no decoder calls itself, directly or through others: the longest chain  *)
(* is section summary, section details, pair index, pair details, player,  *)
(* masterpoints                                                            *)
CallsBounded ==
    \A fn \in DecoderNames :
        /\ Height(fn, Cardinality(DecoderNames)) <= 6
        /\ LoopsCounted(Decoder(fn).steps)

Parsing == pc \in {"events", "types", "scoring", "sections", "trailer"}

Ended == pc \in {"done", "raised"}

(* the steps a call of parse_master_table has before it at most: the       *)
(* passes of its loops that are left, and the trailer                      *)
Remaining ==
    CASE pc = "events" -> (event_max - i) + 2 + section_max + 1
      [] pc = "types" -> 2 + section_max + 1
      [] pc = "scoring" -> 1 + section_max + 1
      [] pc = "sections" -> (section_max - i) + 1
      [] pc = "trailer" -> 1
      [] OTHER -> 0

(* C26: a call of parse_master_table ends, by returning or by raising,     *)
(* whatever the file holds: every step of the call leaves fewer steps to   *)
(* go, of a number that is never negative and is 0 only when the call has  *)
(* ended; the decoders call each other to a bounded depth, none reaching   *)
(* itself, and every loop runs to a count read before it.                  *)
C26_Terminates ==
    /\ [][Parsing => (Remaining' < Remaining /\ (Parsing' \/ Ended'))]_vars
    /\ [](CallsBounded /\ (Parsing => Remaining > 0))

(* the call has ended on a file whose pair-details pointer leads back to   *)
(* the pair index it lies in                                               *)
C26_Witness ==
    /\ Ended
    /\ LE32(file_data, NsAt + 24) = NsAt
    /\ <<"parse_pair_index", NsAt>> \in entered
    /\ <<"parse_pair_struct", NsAt>> \in entered

------------------------------------------------------------------------------
(* Properties of the two lists after a call that returned.                 *)

EventPointer(k) == LE32(file_data, EventPtrOff(k))

(* the entry of event slot k: the decoded event or the empty dictionary,   *)
(* and the bytes of the slot in the type and the scoring arrays            *)
EntryOfSlot(e, k) ==
    /\ e.details = EmptyDict <=> EventPointer(k) = 0
    /\ EventPointer(k) # 0
           => e.details = Call("parse_event_details", file_data, EventPointer(k)).val
    /\ e.type = Byte(file_data, EventTypeOff(k))
    /\ e.scoring = Byte(file_data, EventScoringOff(k))

(* C27: after the first call of parse_master_table on a parser has         *)
(* returned, events has 50 entries and sections 100, in the order of the   *)
(* slots of the file; the details of an entry are empty exactly when the   *)
(* event pointer of its slot is 0 and the event decoded at the pointer     *)
(* otherwise, and its type and scoring are the bytes of its slot in the    *)
(* two arrays.                                                             *)
C27_EventsAndSectionsBySlot ==
    (pc = "done" /\ ncalls = 1)
        => /\ Len(events) = event_max /\ event_max = 50
           /\ Len(sections) = section_max /\ section_max = 100
           /\ \A k \in 1..event_max : EntryOfSlot(events[k], k - 1)
           /\ \A k \in 1..section_max :
                  sections[k] = Call("parse_section_summary", file_data,
                                     SectionOff(k - 1)).val

(* the last event slot holds a pointer, type 3 and scoring 2               *)
C27_Witness ==
    /\ pc = "done" /\ ncalls = 1
    /\ EventPointer(event_max - 1) = EvAt
    /\ events[event_max].details.kind = "EventDetails"
    /\ events[event_max].type = 3 /\ events[event_max].scoring = 2
    /\ events[1].details = EmptyDict

------------------------------------------------------------------------------
(* Properties of the counts of the lists.                                  *)

(* the pointer of the j-th entry of the pair index at an offset            *)
PairPointer(at, j) == LE32(file_data, at + 20 + 8 * (j - 1) + 4)

(* a returned PairList holds as many pairs as it declares, the pairs of    *)
(* its entries in their order                                              *)
PairListCounted(v, at) ==
    /\ v.num_pairs = LE16(file_data, at + 6)
    /\ Len(v.pairs) = v.num_pairs
    /\ \A j \in 1..Len(v.pairs) :
           v.pairs[j] = Call("parse_pair_struct", file_data, PairPointer(at, j)).val

BoardListCounted(v, at) ==
    /\ v.num_boards = LE16(file_data, at + 4)
    /\ Len(v.boards) = v.num_boards
    /\ \A j \in 1..Len(v.boards) :
           v.boards[j].board_num = Byte(file_data, IndexEntry(at, j))

(* the entries lie one after the other behind the six bytes of the record, *)
(* all in the file                                                         *)
BoardResultsCounted(v, at) ==
    /\ v.num_valid_results = Byte(file_data, at + 5)
    /\ Len(v.entries) = v.num_valid_results
    /\ at + 6 + 18 * Len(v.entries) <= file_data.len
    /\ \A j \in 1..Len(v.entries) :
           v.entries[j].round_num
               = Byte(file_data, at + 6 + 18 * (j - 1))

(* C28: a returned PairList, BoardList or BoardResults holds as many       *)
(* children as the count it declares, in the order of the file; when the   *)
(* file ends before the declared entries do, the decoder raises.           *)
C28_DeclaredCounts ==
    /\ (last.fn = "parse_pair_index" /\ last.res.st = "ok")
           => PairListCounted(last.res.val, last.arg)
    /\ (last.fn = "parse_boards_index" /\ last.arg # 0 /\ last.res.st = "ok")
           => BoardListCounted(last.res.val, last.arg)
    /\ (last.fn = "parse_board2_results" /\ last.res.st = "ok")
           => BoardResultsCounted(last.res.val, last.arg)
    /\ (/\ last.fn = "parse_board2_results"
        /\ last.arg + 6 <= file_data.len
        /\ Byte(file_data, last.arg + 4) = 2
        /\ last.arg + 6 + 18 * Byte(file_data, last.arg + 5)
               > file_data.len)
           => last.res.st = "struct.error"

(* two results read in their order                                         *)
C28_Witness ==
    /\ last.fn = "parse_board2_results" /\ last.arg = BrAt
    /\ last.res.st = "ok"
    /\ Len(last.res.val.entries) = 2
    /\ last.res.val.entries[1].round_num = 1
    /\ last.res.val.entries[2].round_num = 2

------------------------------------------------------------------------------
(* Properties of the strings.                                              *)

(* C29: a string that decode_string (loc, max_len) returns has at most     *)
(* max_len bytes, and the bytes read for it, the length byte among them,   *)
(* are the max_len + 1 bytes of the field or fewer.                        *)
C29_StringWithinField ==
    (last.fn = "str" /\ last.res.st = "ok")
        => /\ Len(last.res.val) <= last.width - 1
           /\ last.res.rd <= last.width

------------------------------------------------------------------------------
(* Properties of the memos and the notes.                                  *)

(* the width of the line fields of a memo and of a note                    *)
LineWidth(fn) == IF fn = "parse_memo_structure" THEN 63 ELSE 75

LineCount(at) == LE16(file_data, at + 4)

(* the lines of the record at an offset, in the order of the file          *)
LinesAt(at, max_len) ==
    [j \in 1..LineCount(at) |-> Content(file_data, at + 6 + (max_len + 1) * (j - 1))]

(* C30: parse_memo_structure and parse_note_structure, called at an        *)
(* offset that is not 0 on a record whose line fields (of 63 and of 75     *)
(* bytes behind their length bytes) lie in the file, return: the empty     *)
(* text when the record declares no line, and the declared lines in the    *)
(* order of the file otherwise.                                            *)
C30_LinesRead ==
    (/\ last.fn \in {"parse_memo_structure", "parse_note_structure"}
     /\ last.arg # 0
     /\ last.arg + 6 + (LineWidth(last.fn) + 1) * LineCount(last.arg)
            <= file_data.len)
        => /\ last.res.st = "ok"
           /\ LineCount(last.arg) = 0 => last.res.val = EmptyString
           /\ LineCount(last.arg) > 0
                  => last.res.val = LinesAt(last.arg, LineWidth(last.fn))

====
